---- MODULE Spec2Model ----
(***************************************************************************)
(* Serial-log ingestion core of scripts/web_dashboard.py: the status       *)
(* store, the line classifier parse_log_line, the error history and its    *)
(* persisted document, the reader thread serial_reader, the port switch    *)
(* api_set_port, the MQTT callback on_mqtt_message and the poll surface     *)
(* api_status; the boot monitor of scripts/reboot_and_verify.py and the    *)
(* chunked Wi-Fi list of scripts/ble_client_test.py.                       *)
(*                                                                         *)
(* Text is modelled character by character: a string is a tuple of         *)
(* one-character strings, so the substring tests, the lower-casing and     *)
(* the regular expressions of the classifier are computed as Python        *)
(* computes them.  The store is the projection of the status dictionary    *)
(* onto the fields read by the properties below.                           *)
(***************************************************************************)
EXTENDS Integers, Sequences, FiniteSets, TLC

VARIABLES
    status,          \* the status dictionary (web_dashboard.py 45-157), projected
    error_file,      \* the document ERROR_LOG_FILE on disk
    serial_conn,     \* global serial_conn: bound to a serial.Serial object or to None;
                     \* port, open: of the object opened last; gen: the opens so far
    current_port,    \* global current_port
    serial_thread,   \* global serial_thread: the reader thread last assigned, or 0 (None)
    port_lock,       \* the handler thread holding port_lock, or 0 (free)
    readers,         \* the serial_reader threads: position and locals of each
    handlers,        \* the HTTP request handler threads: position and locals of each
    main_pc,         \* position of main()
    nfed,            \* number of inputs consumed so far (bounds the run)
    last,            \* the operation completed last, with the store it started from
    monitor,         \* reboot_and_verify.py: the locals of DeviceVerifier.monitor_boot,
                     \* the verifier's initialization_status and the clock
    connection_state, \* ble_client_test.py: global connection_state (BLEConnection)
    error_data,      \* load_error_log: the document read at 3557 and not yet assigned
                     \* at 3558, or None
    current_scanning_bus, \* global current_scanning_bus (166)
    wake_timers      \* the reset_wake threads parse_log_line has started (553)

vars == <<status, error_file, serial_conn, current_port, serial_thread, port_lock,
          readers, handlers, main_pc, nfed, last, monitor, connection_state,
          error_data, current_scanning_bus, wake_timers>>

None == "None"

\* no DeviceVerifier is monitoring
NoMonitor == [pc |-> "idle"]

\* no BLE client is running
NoConnection == [pc |-> "idle"]

(***************************************************************************)
(* Text                                                                    *)
(***************************************************************************)

\* The spelling of every string literal used below.
StrTab ==
    (  ("firmware version:" :> <<"f","i","r","m","w","a","r","e"," ","v","e","r","s","i","o","n",":">>)
        @@ ("git commit:" :> <<"g","i","t"," ","c","o","m","m","i","t",":">>)
        @@ ("commit date:" :> <<"c","o","m","m","i","t"," ","d","a","t","e",":">>)
        @@ ("build timestamp:" :> <<"b","u","i","l","d"," ","t","i","m","e","s","t","a","m","p",":">>)
        @@ ("esp-idf version:" :> <<"e","s","p","-","i","d","f"," ","v","e","r","s","i","o","n",":">>)
        @@ ("wifi" :> <<"w","i","f","i">>)
        @@ ("wi-fi" :> <<"w","i","-","f","i">>)
        @@ ("connected" :> <<"c","o","n","n","e","c","t","e","d">>)
        @@ ("failed" :> <<"f","a","i","l","e","d">>)
        @@ ("fail" :> <<"f","a","i","l">>)
        @@ ("disconnect" :> <<"d","i","s","c","o","n","n","e","c","t">>)
        @@ ("disconnected" :> <<"d","i","s","c","o","n","n","e","c","t","e","d">>)
        @@ ("connect failed" :> <<"c","o","n","n","e","c","t"," ","f","a","i","l","e","d">>)
        @@ ("connect fail" :> <<"c","o","n","n","e","c","t"," ","f","a","i","l">>)
        @@ ("connecting to" :> <<"c","o","n","n","e","c","t","i","n","g"," ","t","o">>)
        @@ ("ssid" :> <<"s","s","i","d">>)
        @@ ("ip:" :> <<"i","p",":">>)
        @@ ("spotify" :> <<"s","p","o","t","i","f","y">>)
        @@ ("cspot" :> <<"c","s","p","o","t">>)
        @@ ("disabled" :> <<"d","i","s","a","b","l","e","d">>)
        @@ ("configuration" :> <<"c","o","n","f","i","g","u","r","a","t","i","o","n">>)
        @@ ("starting spotify connect" :> <<"s","t","a","r","t","i","n","g"," ","s","p","o","t","i","f","y"," ","c","o","n","n","e","c","t">>)
        @@ ("player" :> <<"p","l","a","y","e","r">>)
        @@ ("spotify connect player started successfully" :> <<"s","p","o","t","i","f","y"," ","c","o","n","n","e","c","t"," ","p","l","a","y","e","r"," ","s","t","a","r","t","e","d"," ","s","u","c","c","e","s","s","f","u","l","l","y">>)
        @@ ("waiting for spotify app to provision credentials via zeroconf" :> <<"w","a","i","t","i","n","g"," ","f","o","r"," ","s","p","o","t","i","f","y"," ","a","p","p"," ","t","o"," ","p","r","o","v","i","s","i","o","n"," ","c","r","e","d","e","n","t","i","a","l","s"," ","v","i","a"," ","z","e","r","o","c","o","n","f">>))
    @@ (("received spotify login blob over zeroconf" :> <<"r","e","c","e","i","v","e","d"," ","s","p","o","t","i","f","y"," ","l","o","g","i","n"," ","b","l","o","b"," ","o","v","e","r"," ","z","e","r","o","c","o","n","f">>)
        @@ ("cspot mdn" :> <<"c","s","p","o","t"," ","m","d","n">>)
        @@ ("mdns initialized" :> <<"m","d","n","s"," ","i","n","i","t","i","a","l","i","z","e","d">>)
        @@ ("loaded spotify credentials from disk" :> <<"l","o","a","d","e","d"," ","s","p","o","t","i","f","y"," ","c","r","e","d","e","n","t","i","a","l","s"," ","f","r","o","m"," ","d","i","s","k">>)
        @@ ("spotify connect session started as" :> <<"s","p","o","t","i","f","y"," ","c","o","n","n","e","c","t"," ","s","e","s","s","i","o","n"," ","s","t","a","r","t","e","d"," ","a","s">>)
        @@ ("connect session started as" :> <<"c","o","n","n","e","c","t"," ","s","e","s","s","i","o","n"," ","s","t","a","r","t","e","d"," ","a","s">>)
        @@ ("started as" :> <<"s","t","a","r","t","e","d"," ","a","s">>)
        @@ ("entering cspot packet handling loop" :> <<"e","n","t","e","r","i","n","g"," ","c","s","p","o","t"," ","p","a","c","k","e","t"," ","h","a","n","d","l","i","n","g"," ","l","o","o","p">>)
        @@ ("spotify player playing" :> <<"s","p","o","t","i","f","y"," ","p","l","a","y","e","r"," ","p","l","a","y","i","n","g">>)
        @@ ("spotify player paused" :> <<"s","p","o","t","i","f","y"," ","p","l","a","y","e","r"," ","p","a","u","s","e","d">>)
        @@ ("spotify playback started" :> <<"s","p","o","t","i","f","y"," ","p","l","a","y","b","a","c","k"," ","s","t","a","r","t","e","d">>)
        @@ ("spotify volume ->" :> <<"s","p","o","t","i","f","y"," ","v","o","l","u","m","e"," ","-",">">>)
        @@ ("spotify volume:" :> <<"s","p","o","t","i","f","y"," ","v","o","l","u","m","e",":">>)
        @@ ("spotify track metadata updated" :> <<"s","p","o","t","i","f","y"," ","t","r","a","c","k"," ","m","e","t","a","d","a","t","a"," ","u","p","d","a","t","e","d">>)
        @@ ("spotify session lost" :> <<"s","p","o","t","i","f","y"," ","s","e","s","s","i","o","n"," ","l","o","s","t">>)
        @@ ("waiting for reconnect" :> <<"w","a","i","t","i","n","g"," ","f","o","r"," ","r","e","c","o","n","n","e","c","t">>)
        @@ ("spotify connect player failed to start" :> <<"s","p","o","t","i","f","y"," ","c","o","n","n","e","c","t"," ","p","l","a","y","e","r"," ","f","a","i","l","e","d"," ","t","o"," ","s","t","a","r","t">>)
        @@ ("unable to obtain spotify credentials" :> <<"u","n","a","b","l","e"," ","t","o"," ","o","b","t","a","i","n"," ","s","p","o","t","i","f","y"," ","c","r","e","d","e","n","t","i","a","l","s">>)
        @@ ("spotify authentication failed" :> <<"s","p","o","t","i","f","y"," ","a","u","t","h","e","n","t","i","c","a","t","i","o","n"," ","f","a","i","l","e","d">>)
        @@ ("spotify client init failed" :> <<"s","p","o","t","i","f","y"," ","c","l","i","e","n","t"," ","i","n","i","t"," ","f","a","i","l","e","d">>)
        @@ ("spotify client init" :> <<"s","p","o","t","i","f","y"," ","c","l","i","e","n","t"," ","i","n","i","t">>)
        @@ ("init" :> <<"i","n","i","t">>)
        @@ ("connect session started" :> <<"c","o","n","n","e","c","t"," ","s","e","s","s","i","o","n"," ","s","t","a","r","t","e","d">>)
        @@ ("session lost" :> <<"s","e","s","s","i","o","n"," ","l","o","s","t">>)
        @@ ("reconnect" :> <<"r","e","c","o","n","n","e","c","t">>))
    @@ (("authentication failed" :> <<"a","u","t","h","e","n","t","i","c","a","t","i","o","n"," ","f","a","i","l","e","d">>)
        @@ ("error" :> <<"e","r","r","o","r">>)
        @@ ("playing" :> <<"p","l","a","y","i","n","g">>)
        @@ ("paused" :> <<"p","a","u","s","e","d">>)
        @@ ("resuming" :> <<"r","e","s","u","m","i","n","g">>)
        @@ ("resume" :> <<"r","e","s","u","m","e">>)
        @@ ("aws" :> <<"a","w","s">>)
        @@ ("mqtt" :> <<"m","q","t","t">>)
        @@ ("somnus" :> <<"s","o","m","n","u","s">>)
        @@ ("connected to aws iot as" :> <<"c","o","n","n","e","c","t","e","d"," ","t","o"," ","a","w","s"," ","i","o","t"," ","a","s">>)
        @@ ("aws iot bridge initialized" :> <<"a","w","s"," ","i","o","t"," ","b","r","i","d","g","e"," ","i","n","i","t","i","a","l","i","z","e","d">>)
        @@ ("somnus mqtt service started" :> <<"s","o","m","n","u","s"," ","m","q","t","t"," ","s","e","r","v","i","c","e"," ","s","t","a","r","t","e","d">>)
        @@ ("mqtt service started" :> <<"m","q","t","t"," ","s","e","r","v","i","c","e"," ","s","t","a","r","t","e","d">>)
        @@ ("init failed" :> <<"i","n","i","t"," ","f","a","i","l","e","d">>)
        @@ ("start failed" :> <<"s","t","a","r","t"," ","f","a","i","l","e","d">>)
        @@ ("telemetry publish" :> <<"t","e","l","e","m","e","t","r","y"," ","p","u","b","l","i","s","h">>)
        @@ ("success" :> <<"s","u","c","c","e","s","s">>)
        @@ ("published" :> <<"p","u","b","l","i","s","h","e","d">>)
        @@ ("iot" :> <<"i","o","t">>)
        @@ ("ssl" :> <<"s","s","l">>)
        @@ ("mbedtls" :> <<"m","b","e","d","t","l","s">>)
        @@ ("telemetry publish failed" :> <<"t","e","l","e","m","e","t","r","y"," ","p","u","b","l","i","s","h"," ","f","a","i","l","e","d">>)
        @@ ("sensors:" :> <<"s","e","n","s","o","r","s",":">>)
        @@ ("sensor" :> <<"s","e","n","s","o","r">>)
        @@ ("gemini" :> <<"g","e","m","i","n","i">>))
    @@ (("wake" :> <<"w","a","k","e">>)
        @@ ("guru meditation error" :> <<"g","u","r","u"," ","m","e","d","i","t","a","t","i","o","n"," ","e","r","r","o","r">>)
        @@ ("panic" :> <<"p","a","n","i","c">>)
        @@ ("exception was unhandled" :> <<"e","x","c","e","p","t","i","o","n"," ","w","a","s"," ","u","n","h","a","n","d","l","e","d">>)
        @@ ("integerdividebyzero" :> <<"i","n","t","e","g","e","r","d","i","v","i","d","e","b","y","z","e","r","o">>)
        @@ ("assert failed" :> <<"a","s","s","e","r","t"," ","f","a","i","l","e","d">>)
        @@ ("abort()" :> <<"a","b","o","r","t","(",")">>)
        @@ ("crash" :> <<"c","r","a","s","h">>)
        @@ ("fatal error" :> <<"f","a","t","a","l"," ","e","r","r","o","r">>)
        @@ ("watchdog reset" :> <<"w","a","t","c","h","d","o","g"," ","r","e","s","e","t">>)
        @@ ("brownout" :> <<"b","r","o","w","n","o","u","t">>)
        @@ ("stack overflow" :> <<"s","t","a","c","k"," ","o","v","e","r","f","l","o","w">>)
        @@ ("heap corruption" :> <<"h","e","a","p"," ","c","o","r","r","u","p","t","i","o","n">>)
        @@ ("esp32-s3" :> <<"e","s","p","3","2","-","s","3">>)
        @@ ("chip is esp32s3" :> <<"c","h","i","p"," ","i","s"," ","e","s","p","3","2","s","3">>)
        @@ ("cpu frequency" :> <<"c","p","u"," ","f","r","e","q","u","e","n","c","y">>)
        @@ ("free heap" :> <<"f","r","e","e"," ","h","e","a","p">>)
        @@ ("app cpu start" :> <<"a","p","p"," ","c","p","u"," ","s","t","a","r","t">>)
        @@ ("main task" :> <<"m","a","i","n"," ","t","a","s","k">>)
        @@ ("nvs" :> <<"n","v","s">>)
        @@ ("boot:" :> <<"b","o","o","t",":">>)
        @@ ("rst:0x" :> <<"r","s","t",":","0","x">>)
        @@ ("boot mode:" :> <<"b","o","o","t"," ","m","o","d","e",":">>)
        @@ ("starting" :> <<"s","t","a","r","t","i","n","g">>)
        @@ ("initialized" :> <<"i","n","i","t","i","a","l","i","z","e","d">>))
    @@ (("rst:" :> <<"r","s","t",":">>)
        @@ ("certificate discovery" :> <<"c","e","r","t","i","f","i","c","a","t","e"," ","d","i","s","c","o","v","e","r","y">>)
        @@ ("using embedded" :> <<"u","s","i","n","g"," ","e","m","b","e","d","d","e","d">>)
        @@ ("spiffs may not be mounted" :> <<"s","p","i","f","f","s"," ","m","a","y"," ","n","o","t"," ","b","e"," ","m","o","u","n","t","e","d">>)
        @@ ("falling back to embedded" :> <<"f","a","l","l","i","n","g"," ","b","a","c","k"," ","t","o"," ","e","m","b","e","d","d","e","d">>)
        @@ ("certificate directory not found" :> <<"c","e","r","t","i","f","i","c","a","t","e"," ","d","i","r","e","c","t","o","r","y"," ","n","o","t"," ","f","o","u","n","d">>)
        @@ ("Connected as: " :> <<"C","o","n","n","e","c","t","e","d"," ","a","s",":"," ">>)
        @@ ("sensors: panic " :> <<"s","e","n","s","o","r","s",":"," ","p","a","n","i","c"," ">>)
        @@ ("Spotify init failed" :> <<"S","p","o","t","i","f","y"," ","i","n","i","t"," ","f","a","i","l","e","d">>)
        @@ ("Guru Meditation Error: Core 0 panic'ed" :> <<"G","u","r","u"," ","M","e","d","i","t","a","t","i","o","n"," ","E","r","r","o","r",":"," ","C","o","r","e"," ","0"," ","p","a","n","i","c","'","e","d">>)
        @@ ("sensors: panic" :> <<"s","e","n","s","o","r","s",":"," ","p","a","n","i","c">>)
        @@ ("sensors: fatal error" :> <<"s","e","n","s","o","r","s",":"," ","f","a","t","a","l"," ","e","r","r","o","r">>)
        @@ ("Certificate discovery failed, using embedded" :> <<"C","e","r","t","i","f","i","c","a","t","e"," ","d","i","s","c","o","v","e","r","y"," ","f","a","i","l","e","d",","," ","u","s","i","n","g"," ","e","m","b","e","d","d","e","d">>)
        @@ ("Connected to AWS IoT as dev1" :> <<"C","o","n","n","e","c","t","e","d"," ","t","o"," ","A","W","S"," ","I","o","T"," ","a","s"," ","d","e","v","1">>)
        @@ ("Connected to AWS IoT as dev2" :> <<"C","o","n","n","e","c","t","e","d"," ","t","o"," ","A","W","S"," ","I","o","T"," ","a","s"," ","d","e","v","2">>)
        @@ ("IP:192.168.1.42" :> <<"I","P",":","1","9","2",".","1","6","8",".","1",".","4","2">>)
        @@ ("Wi-Fi connected" :> <<"W","i","-","F","i"," ","c","o","n","n","e","c","t","e","d">>)
        @@ ("Firmware Version: 1.2" :> <<"F","i","r","m","w","a","r","e"," ","V","e","r","s","i","o","n",":"," ","1",".","2">>)
        @@ ("mqtt telemetry publish success" :> <<"m","q","t","t"," ","t","e","l","e","m","e","t","r","y"," ","p","u","b","l","i","s","h"," ","s","u","c","c","e","s","s">>)
        @@ ("hello" :> <<"h","e","l","l","o">>)
        @@ ("dev1" :> <<"d","e","v","1">>)
        @@ ("dev2" :> <<"d","e","v","2">>)
        @@ ("192.168.1.42" :> <<"1","9","2",".","1","6","8",".","1",".","4","2">>)
        @@ ("1.2" :> <<"1",".","2">>)
        @@ ("Connected as: dev1" :> <<"C","o","n","n","e","c","t","e","d"," ","a","s",":"," ","d","e","v","1">>))
    @@ (("sensors: panic 01" :> <<"s","e","n","s","o","r","s",":"," ","p","a","n","i","c"," ","0","1">>)
        @@ ("sensors: panic 02" :> <<"s","e","n","s","o","r","s",":"," ","p","a","n","i","c"," ","0","2">>)
        @@ ("sensors: panic 03" :> <<"s","e","n","s","o","r","s",":"," ","p","a","n","i","c"," ","0","3">>)
        @@ ("sensors: panic 04" :> <<"s","e","n","s","o","r","s",":"," ","p","a","n","i","c"," ","0","4">>)
        @@ ("sensors: panic 05" :> <<"s","e","n","s","o","r","s",":"," ","p","a","n","i","c"," ","0","5">>)
        @@ ("sensors: panic 06" :> <<"s","e","n","s","o","r","s",":"," ","p","a","n","i","c"," ","0","6">>)
        @@ ("sensors: panic 07" :> <<"s","e","n","s","o","r","s",":"," ","p","a","n","i","c"," ","0","7">>)
        @@ ("sensors: panic 08" :> <<"s","e","n","s","o","r","s",":"," ","p","a","n","i","c"," ","0","8">>)
        @@ ("sensors: panic 09" :> <<"s","e","n","s","o","r","s",":"," ","p","a","n","i","c"," ","0","9">>)
        @@ ("sensors: panic 10" :> <<"s","e","n","s","o","r","s",":"," ","p","a","n","i","c"," ","1","0">>)
        @@ ("sensors: panic 11" :> <<"s","e","n","s","o","r","s",":"," ","p","a","n","i","c"," ","1","1">>)
        @@ ("sensors: panic 12" :> <<"s","e","n","s","o","r","s",":"," ","p","a","n","i","c"," ","1","2">>)
        @@ ("sensors: panic 13" :> <<"s","e","n","s","o","r","s",":"," ","p","a","n","i","c"," ","1","3">>)
        @@ ("sensors: panic 14" :> <<"s","e","n","s","o","r","s",":"," ","p","a","n","i","c"," ","1","4">>)
        @@ ("sensors: panic 15" :> <<"s","e","n","s","o","r","s",":"," ","p","a","n","i","c"," ","1","5">>)
        @@ ("sensors: panic 16" :> <<"s","e","n","s","o","r","s",":"," ","p","a","n","i","c"," ","1","6">>)
        @@ ("sensors: panic 17" :> <<"s","e","n","s","o","r","s",":"," ","p","a","n","i","c"," ","1","7">>)
        @@ ("sensors: panic 18" :> <<"s","e","n","s","o","r","s",":"," ","p","a","n","i","c"," ","1","8">>)
        @@ ("sensors: panic 19" :> <<"s","e","n","s","o","r","s",":"," ","p","a","n","i","c"," ","1","9">>)
        @@ ("sensors: panic 20" :> <<"s","e","n","s","o","r","s",":"," ","p","a","n","i","c"," ","2","0">>)
        @@ ("sensors: panic 21" :> <<"s","e","n","s","o","r","s",":"," ","p","a","n","i","c"," ","2","1">>)
        @@ ("sensors: panic 22" :> <<"s","e","n","s","o","r","s",":"," ","p","a","n","i","c"," ","2","2">>)
        @@ ("sensors: panic 23" :> <<"s","e","n","s","o","r","s",":"," ","p","a","n","i","c"," ","2","3">>)
        @@ ("sensors: panic 24" :> <<"s","e","n","s","o","r","s",":"," ","p","a","n","i","c"," ","2","4">>)
        @@ ("sensors: panic 25" :> <<"s","e","n","s","o","r","s",":"," ","p","a","n","i","c"," ","2","5">>))
    @@ (("sensors: panic 26" :> <<"s","e","n","s","o","r","s",":"," ","p","a","n","i","c"," ","2","6">>)
        @@ ("sensors: panic 27" :> <<"s","e","n","s","o","r","s",":"," ","p","a","n","i","c"," ","2","7">>)
        @@ ("sensors: panic 28" :> <<"s","e","n","s","o","r","s",":"," ","p","a","n","i","c"," ","2","8">>)
        @@ ("sensors: panic 29" :> <<"s","e","n","s","o","r","s",":"," ","p","a","n","i","c"," ","2","9">>)
        @@ ("sensors: panic 30" :> <<"s","e","n","s","o","r","s",":"," ","p","a","n","i","c"," ","3","0">>)
        @@ ("sensors: panic 31" :> <<"s","e","n","s","o","r","s",":"," ","p","a","n","i","c"," ","3","1">>)
        @@ ("sensors: panic 32" :> <<"s","e","n","s","o","r","s",":"," ","p","a","n","i","c"," ","3","2">>)
        @@ ("sensors: panic 33" :> <<"s","e","n","s","o","r","s",":"," ","p","a","n","i","c"," ","3","3">>)
        @@ ("sensors: panic 34" :> <<"s","e","n","s","o","r","s",":"," ","p","a","n","i","c"," ","3","4">>)
        @@ ("sensors: panic 35" :> <<"s","e","n","s","o","r","s",":"," ","p","a","n","i","c"," ","3","5">>)
        @@ ("sensors: panic 36" :> <<"s","e","n","s","o","r","s",":"," ","p","a","n","i","c"," ","3","6">>)
        @@ ("sensors: panic 37" :> <<"s","e","n","s","o","r","s",":"," ","p","a","n","i","c"," ","3","7">>)
        @@ ("sensors: panic 38" :> <<"s","e","n","s","o","r","s",":"," ","p","a","n","i","c"," ","3","8">>)
        @@ ("sensors: panic 39" :> <<"s","e","n","s","o","r","s",":"," ","p","a","n","i","c"," ","3","9">>)
        @@ ("sensors: panic 40" :> <<"s","e","n","s","o","r","s",":"," ","p","a","n","i","c"," ","4","0">>)
        @@ ("sensors: panic 41" :> <<"s","e","n","s","o","r","s",":"," ","p","a","n","i","c"," ","4","1">>)
        @@ ("sensors: panic 42" :> <<"s","e","n","s","o","r","s",":"," ","p","a","n","i","c"," ","4","2">>)
        @@ ("sensors: panic 43" :> <<"s","e","n","s","o","r","s",":"," ","p","a","n","i","c"," ","4","3">>)
        @@ ("sensors: panic 44" :> <<"s","e","n","s","o","r","s",":"," ","p","a","n","i","c"," ","4","4">>)
        @@ ("sensors: panic 45" :> <<"s","e","n","s","o","r","s",":"," ","p","a","n","i","c"," ","4","5">>)
        @@ ("sensors: panic 46" :> <<"s","e","n","s","o","r","s",":"," ","p","a","n","i","c"," ","4","6">>)
        @@ ("sensors: panic 47" :> <<"s","e","n","s","o","r","s",":"," ","p","a","n","i","c"," ","4","7">>)
        @@ ("sensors: panic 48" :> <<"s","e","n","s","o","r","s",":"," ","p","a","n","i","c"," ","4","8">>)
        @@ ("sensors: panic 49" :> <<"s","e","n","s","o","r","s",":"," ","p","a","n","i","c"," ","4","9">>)
        @@ ("sensors: panic 50" :> <<"s","e","n","s","o","r","s",":"," ","p","a","n","i","c"," ","5","0">>))
    @@ (("sensors: panic 51" :> <<"s","e","n","s","o","r","s",":"," ","p","a","n","i","c"," ","5","1">>)
        @@ ("sensors: panic 52" :> <<"s","e","n","s","o","r","s",":"," ","p","a","n","i","c"," ","5","2">>)
        @@ ("sensors: panic 53" :> <<"s","e","n","s","o","r","s",":"," ","p","a","n","i","c"," ","5","3">>)
        @@ ("Wi-Fi disconnected" :> <<"W","i","-","F","i"," ","d","i","s","c","o","n","n","e","c","t","e","d">>)
        @@ ("wifi disconnect reason 8" :> <<"w","i","f","i"," ","d","i","s","c","o","n","n","e","c","t"," ","r","e","a","s","o","n"," ","8">>)
        @@ ("sta ip: 10.0.0.7, mask: 255.255.255.0, gw: 10.0.0.1" :> <<"s","t","a"," ","i","p",":"," ","1","0",".","0",".","0",".","7",","," ","m","a","s","k",":"," ","2","5","5",".","2","5","5",".","2","5","5",".","0",","," ","g","w",":"," ","1","0",".","0",".","0",".","1">>)
        @@ ("MQTT reconnect: connected to AWS IoT as dev1 (was disconnected)" :> <<"M","Q","T","T"," ","r","e","c","o","n","n","e","c","t",":"," ","c","o","n","n","e","c","t","e","d"," ","t","o"," ","A","W","S"," ","I","o","T"," ","a","s"," ","d","e","v","1"," ","(","w","a","s"," ","d","i","s","c","o","n","n","e","c","t","e","d",")">>)
        @@ ("Spotify: cspot disabled in configuration" :> <<"S","p","o","t","i","f","y",":"," ","c","s","p","o","t"," ","d","i","s","a","b","l","e","d"," ","i","n"," ","c","o","n","f","i","g","u","r","a","t","i","o","n">>)
        @@ ("Spotify init failed: cspot disabled in configuration" :> <<"S","p","o","t","i","f","y"," ","i","n","i","t"," ","f","a","i","l","e","d",":"," ","c","s","p","o","t"," ","d","i","s","a","b","l","e","d"," ","i","n"," ","c","o","n","f","i","g","u","r","a","t","i","o","n">>)
        @@ ("Spotify player playing" :> <<"S","p","o","t","i","f","y"," ","p","l","a","y","e","r"," ","p","l","a","y","i","n","g">>)
        @@ ("Spotify client init" :> <<"S","p","o","t","i","f","y"," ","c","l","i","e","n","t"," ","i","n","i","t">>)
        @@ ("sensors: stack overflow in task main" :> <<"s","e","n","s","o","r","s",":"," ","s","t","a","c","k"," ","o","v","e","r","f","l","o","w"," ","i","n"," ","t","a","s","k"," ","m","a","i","n">>)
        @@ ("10.0.0.7" :> <<"1","0",".","0",".","0",".","7">>)
        @@ ("caf{U+00E9}" :> <<"c","a","f","U+00E9">>)
        @@ ("{U+FFFD}he{U+FFFD}llo{U+FFFD}" :> <<"U+FFFD","h","e","U+FFFD","l","l","o","U+FFFD">>)
        @@ ("{U+FFFD}{U+FFFD}" :> <<"U+FFFD","U+FFFD">>)
        @@ ("abababababababababababababababababababababababababababababababababababababababababababababababababababababababababababababababababababababababababababababababababababababababababababababababababababababababababababababababababababababababababababababababababababababababababababababababababababababababababababababababababababababababababababababababababababababababababababababababababababababababababababababababababababababababababababababababababababababababababababababababababababababababababababababababababababababababababababababababababababababababababababababababababababababababababababababababababababababababababababababababababababababababababababababababababababababababababababababababababababababababababababababababababababababababababababababababababababababababababababababababababababababababababababababababababababababababababababababababababababababababababababababababababababababababababababababababababababababababababababababababababababababababababababababababababababab" :> <<"a","b","a","b","a","b","a","b","a","b","a","b","a","b","a","b","a","b","a","b","a","b","a","b","a","b","a","b","a","b","a","b","a","b","a","b","a","b","a","b","a","b","a","b","a","b","a","b","a","b","a","b","a","b","a","b","a","b","a","b","a","b","a","b","a","b","a","b","a","b","a","b","a","b","a","b","a","b","a","b","a","b","a","b","a","b","a","b","a","b","a","b","a","b","a","b","a","b","a","b","a","b","a","b","a","b","a","b","a","b","a","b","a","b","a","b","a","b","a","b","a","b","a","b","a","b","a","b","a","b","a","b","a","b","a","b","a","b","a","b","a","b","a","b","a","b","a","b","a","b","a","b","a","b","a","b","a","b","a","b","a","b","a","b","a","b","a","b","a","b","a","b","a","b","a","b","a","b","a","b","a","b","a","b","a","b","a","b","a","b","a","b","a","b","a","b","a","b","a","b","a","b","a","b","a","b","a","b","a","b","a","b","a","b","a","b","a","b","a","b","a","b","a","b","a","b","a","b","a","b","a","b","a","b","a","b","a","b","a","b","a","b","a","b","a","b","a","b","a","b","a","b","a","b","a","b","a","b","a","b","a","b","a","b","a","b","a","b","a","b","a","b","a","b","a","b","a","b","a","b","a","b","a","b","a","b","a","b","a","b","a","b","a","b","a","b","a","b","a","b","a","b","a","b","a","b","a","b","a","b","a","b","a","b","a","b","a","b","a","b","a","b","a","b","a","b","a","b","a","b","a","b","a","b","a","b","a","b","a","b","a","b","a","b","a","b","a","b","a","b","a","b","a","b","a","b","a","b","a","b","a","b","a","b","a","b","a","b","a","b","a","b","a","b","a","b","a","b","a","b","a","b","a","b","a","b","a","b","a","b","a","b","a","b","a","b","a","b","a","b","a","b","a","b","a","b","a","b","a","b","a","b","a","b","a","b","a","b","a","b","a","b","a","b","a","b","a","b","a","b","a","b","a","b","a","b","a","b","a","b","a","b","a","b","a","b","a","b","a","b","a","b","a","b","a","b","a","b","a","b","a","b","a","b","a","b","a","b","a","b","a","b","a","b","a","b","a","b","a","b","a","b","a","b","a","b","a","b","a","b","a","b","a","b","a","b","a","b","a","b","a","b","a","b","a","b","a","b","a","b","a","b","a","b","a","b","a","b","a","b","a","b","a","b","a","b","a","b","a","b","a","b","a","b","a","b","a","b","a","b","a","b","a","b","a","b","a","b","a","b","a","b","a","b","a","b","a","b","a","b","a","b","a","b","a","b","a","b","a","b","a","b","a","b","a","b","a","b","a","b","a","b","a","b","a","b","a","b","a","b","a","b","a","b","a","b","a","b","a","b","a","b","a","b","a","b","a","b","a","b","a","b","a","b","a","b","a","b","a","b","a","b","a","b","a","b","a","b","a","b","a","b","a","b","a","b","a","b","a","b","a","b","a","b","a","b","a","b","a","b","a","b","a","b","a","b","a","b","a","b","a","b","a","b","a","b","a","b","a","b","a","b","a","b","a","b","a","b","a","b","a","b","a","b","a","b","a","b","a","b","a","b","a","b","a","b","a","b","a","b","a","b","a","b","a","b","a","b","a","b","a","b","a","b","a","b","a","b","a","b","a","b","a","b","a","b","a","b","a","b","a","b","a","b","a","b","a","b","a","b","a","b","a","b","a","b","a","b","a","b","a","b","a","b","a","b","a","b","a","b","a","b","a","b","a","b","a","b","a","b","a","b","a","b","a","b","a","b","a","b","a","b","a","b","a","b","a","b","a","b","a","b","a","b","a","b","a","b","a","b","a","b","a","b","a","b","a","b","a","b","a","b","a","b","a","b","a","b","a","b","a","b","a","b","a","b","a","b","a","b","a","b","a","b","a","b","a","b","a","b","a","b","a","b","a","b","a","b","a","b","a","b","a","b","a","b","a","b","a","b","a","b","a","b","a","b","a","b","a","b","a","b","a","b","a","b","a","b","a","b","a","b","a","b","a","b","a","b","a","b","a","b","a","b","a","b","a","b","a","b","a","b","a","b","a","b","a","b","a","b","a","b","a","b","a","b","a","b","a","b","a","b","a","b","a","b","a","b","a","b","a","b","a","b","a","b","a","b","a","b","a","b","a","b","a","b","a","b","a","b","a","b","a","b","a","b","a","b","a","b","a","b","a","b","a","b","a","b","a","b","a","b","a","b","a","b","a","b","a","b","a","b","a","b","a","b","a","b","a","b","a","b","a","b","a","b","a","b","a","b">>)
        @@ ("abababababababababababababababababababababababababababababababababababababababababababababababababababababababababababababababababababababababababababababababababababababababababababababababababababababababababababababababababababababababababababababababababababababababababababababababababababababababababababababababababababababababababababababababababababababababababababababababababababababababababababababababababababababababababababababababababababababababababababababababababababababababababababababababababababababababababababababababababababababababababababababababababababababababababababababababababababababababababababababababababababababababababababababababababababababababababababababababababababababababababababababababababababababababababababababababababababababababababababababababababababababababababababababababababababababababababababababababababababababababababababababababababababababababababababababababababababababababababababababababababababababababababababababababababababa" :> <<"a","b","a","b","a","b","a","b","a","b","a","b","a","b","a","b","a","b","a","b","a","b","a","b","a","b","a","b","a","b","a","b","a","b","a","b","a","b","a","b","a","b","a","b","a","b","a","b","a","b","a","b","a","b","a","b","a","b","a","b","a","b","a","b","a","b","a","b","a","b","a","b","a","b","a","b","a","b","a","b","a","b","a","b","a","b","a","b","a","b","a","b","a","b","a","b","a","b","a","b","a","b","a","b","a","b","a","b","a","b","a","b","a","b","a","b","a","b","a","b","a","b","a","b","a","b","a","b","a","b","a","b","a","b","a","b","a","b","a","b","a","b","a","b","a","b","a","b","a","b","a","b","a","b","a","b","a","b","a","b","a","b","a","b","a","b","a","b","a","b","a","b","a","b","a","b","a","b","a","b","a","b","a","b","a","b","a","b","a","b","a","b","a","b","a","b","a","b","a","b","a","b","a","b","a","b","a","b","a","b","a","b","a","b","a","b","a","b","a","b","a","b","a","b","a","b","a","b","a","b","a","b","a","b","a","b","a","b","a","b","a","b","a","b","a","b","a","b","a","b","a","b","a","b","a","b","a","b","a","b","a","b","a","b","a","b","a","b","a","b","a","b","a","b","a","b","a","b","a","b","a","b","a","b","a","b","a","b","a","b","a","b","a","b","a","b","a","b","a","b","a","b","a","b","a","b","a","b","a","b","a","b","a","b","a","b","a","b","a","b","a","b","a","b","a","b","a","b","a","b","a","b","a","b","a","b","a","b","a","b","a","b","a","b","a","b","a","b","a","b","a","b","a","b","a","b","a","b","a","b","a","b","a","b","a","b","a","b","a","b","a","b","a","b","a","b","a","b","a","b","a","b","a","b","a","b","a","b","a","b","a","b","a","b","a","b","a","b","a","b","a","b","a","b","a","b","a","b","a","b","a","b","a","b","a","b","a","b","a","b","a","b","a","b","a","b","a","b","a","b","a","b","a","b","a","b","a","b","a","b","a","b","a","b","a","b","a","b","a","b","a","b","a","b","a","b","a","b","a","b","a","b","a","b","a","b","a","b","a","b","a","b","a","b","a","b","a","b","a","b","a","b","a","b","a","b","a","b","a","b","a","b","a","b","a","b","a","b","a","b","a","b","a","b","a","b","a","b","a","b","a","b","a","b","a","b","a","b","a","b","a","b","a","b","a","b","a","b","a","b","a","b","a","b","a","b","a","b","a","b","a","b","a","b","a","b","a","b","a","b","a","b","a","b","a","b","a","b","a","b","a","b","a","b","a","b","a","b","a","b","a","b","a","b","a","b","a","b","a","b","a","b","a","b","a","b","a","b","a","b","a","b","a","b","a","b","a","b","a","b","a","b","a","b","a","b","a","b","a","b","a","b","a","b","a","b","a","b","a","b","a","b","a","b","a","b","a","b","a","b","a","b","a","b","a","b","a","b","a","b","a","b","a","b","a","b","a","b","a","b","a","b","a","b","a","b","a","b","a","b","a","b","a","b","a","b","a","b","a","b","a","b","a","b","a","b","a","b","a","b","a","b","a","b","a","b","a","b","a","b","a","b","a","b","a","b","a","b","a","b","a","b","a","b","a","b","a","b","a","b","a","b","a","b","a","b","a","b","a","b","a","b","a","b","a","b","a","b","a","b","a","b","a","b","a","b","a","b","a","b","a","b","a","b","a","b","a","b","a","b","a","b","a","b","a","b","a","b","a","b","a","b","a","b","a","b","a","b","a","b","a","b","a","b","a","b","a","b","a","b","a","b","a","b","a","b","a","b","a","b","a","b","a","b","a","b","a","b","a","b","a","b","a","b","a","b","a","b","a","b","a","b","a","b","a","b","a","b","a","b","a","b","a","b","a","b","a","b","a","b","a","b","a","b","a","b","a","b","a","b","a","b","a","b","a","b","a","b","a","b","a","b","a","b","a","b","a","b","a","b","a","b","a","b","a","b","a","b","a","b","a","b","a","b","a","b","a","b","a","b","a","b","a","b","a","b","a","b","a","b","a","b","a","b","a","b","a","b","a","b","a","b","a","b","a","b","a","b","a","b","a","b","a","b","a","b","a","b","a","b","a","b","a","b","a","b","a","b","a","b","a","b","a","b","a","b","a","b","a","b","a","b","a","b","a","b","a","b","a","b","a","b","a","b","a","b","a","b","a","b","a","b","a","b","a","b","a","b","a","b","a","b","a","b","a","b","a","b","a","b","a","b","a","b","a","b","a","b","a","b","a","b","a","b","a","b","a","b","a">>)
        @@ ("xxxxxxxxxxxxxxxxxxxxxxxxxxxxxxxxxxxxxxxxxxxxxxxxxxxxxxxxxxxxxxxxxxxxxxxxxxxxxxxxxxxxxxxxxxxxxxxxxxxx" :> <<"x","x","x","x","x","x","x","x","x","x","x","x","x","x","x","x","x","x","x","x","x","x","x","x","x","x","x","x","x","x","x","x","x","x","x","x","x","x","x","x","x","x","x","x","x","x","x","x","x","x","x","x","x","x","x","x","x","x","x","x","x","x","x","x","x","x","x","x","x","x","x","x","x","x","x","x","x","x","x","x","x","x","x","x","x","x","x","x","x","x","x","x","x","x","x","x","x","x","x","x">>)
        @@ ("xxxxxxxxxxxxxxxxxxxxxxxxxxxxxxxxxxxxxxxxxxxxxxxxxxxxxxxxxxxxxxxxxxxxxxxxxxxxxxxxabcdefghijklmnopqrstu" :> <<"x","x","x","x","x","x","x","x","x","x","x","x","x","x","x","x","x","x","x","x","x","x","x","x","x","x","x","x","x","x","x","x","x","x","x","x","x","x","x","x","x","x","x","x","x","x","x","x","x","x","x","x","x","x","x","x","x","x","x","x","x","x","x","x","x","x","x","x","x","x","x","x","x","x","x","x","x","x","x","x","a","b","c","d","e","f","g","h","i","j","k","l","m","n","o","p","q","r","s","t","u">>)
        @@ ("xxxxxxxxxxxxxxxxxxxxxxxxxxxxxxxxxxxxxxxxxxxxxxxxxxxxxxxxxxxxxxxxxxxxxxxxxxxxxxxxxxxxxxxxxxxxxxxxxxxxxxxxxxxxxxxxxxxxxxxxxxxxxxxxxxxxxxxxxxxxxxxxxxxxxxxxxxxxxxxxxxxxxxxxxxxxxxxxxxxxxxxxxxxxxxxxxxxxxxxxxxxxxxxxxxxxxxxxxxxxxxxxxxxxxxxxxxxxxxxxxxxxxxxxxx" :> <<"x","x","x","x","x","x","x","x","x","x","x","x","x","x","x","x","x","x","x","x","x","x","x","x","x","x","x","x","x","x","x","x","x","x","x","x","x","x","x","x","x","x","x","x","x","x","x","x","x","x","x","x","x","x","x","x","x","x","x","x","x","x","x","x","x","x","x","x","x","x","x","x","x","x","x","x","x","x","x","x","x","x","x","x","x","x","x","x","x","x","x","x","x","x","x","x","x","x","x","x","x","x","x","x","x","x","x","x","x","x","x","x","x","x","x","x","x","x","x","x","x","x","x","x","x","x","x","x","x","x","x","x","x","x","x","x","x","x","x","x","x","x","x","x","x","x","x","x","x","x","x","x","x","x","x","x","x","x","x","x","x","x","x","x","x","x","x","x","x","x","x","x","x","x","x","x","x","x","x","x","x","x","x","x","x","x","x","x","x","x","x","x","x","x","x","x","x","x","x","x","x","x","x","x","x","x","x","x","x","x","x","x","x","x","x","x","x","x","x","x","x","x","x","x","x","x","x","x","x","x","x","x","x","x","x","x","x","x","x","x","x","x","x","x","x","x","x","x","x","x">>)
        @@ ("yxxxxxxxxxxxxxxxxxxxxxxxxxxxxxxxxxxxxxxxxxxxxxxxxxxxxxxxxxxxxxxxxxxxxxxxxxxxxxxxxxxxxxxxxxxxxxxxxxxxxxxxxxxxxxxxxxxxxxxxxxxxxxxxxxxxxxxxxxxxxxxxxxxxxxxxxxxxxxxxxxxxxxxxxxxxxxxxxxxxxxxxxxxxxxxxxxxxxxxxxxxxxxxxxxxxxxxxxxxxxxxxxxxxxxxxxxxxxxxxxxxxxxxxx" :> <<"y","x","x","x","x","x","x","x","x","x","x","x","x","x","x","x","x","x","x","x","x","x","x","x","x","x","x","x","x","x","x","x","x","x","x","x","x","x","x","x","x","x","x","x","x","x","x","x","x","x","x","x","x","x","x","x","x","x","x","x","x","x","x","x","x","x","x","x","x","x","x","x","x","x","x","x","x","x","x","x","x","x","x","x","x","x","x","x","x","x","x","x","x","x","x","x","x","x","x","x","x","x","x","x","x","x","x","x","x","x","x","x","x","x","x","x","x","x","x","x","x","x","x","x","x","x","x","x","x","x","x","x","x","x","x","x","x","x","x","x","x","x","x","x","x","x","x","x","x","x","x","x","x","x","x","x","x","x","x","x","x","x","x","x","x","x","x","x","x","x","x","x","x","x","x","x","x","x","x","x","x","x","x","x","x","x","x","x","x","x","x","x","x","x","x","x","x","x","x","x","x","x","x","x","x","x","x","x","x","x","x","x","x","x","x","x","x","x","x","x","x","x","x","x","x","x","x","x","x","x","x","x","x","x","x","x","x","x","x","x","x","x","x","x","x","x","x","x","x">>)
        @@ ("abcdefghijklmnopqrstu" :> <<"a","b","c","d","e","f","g","h","i","j","k","l","m","n","o","p","q","r","s","t","u">>)
        @@ ("abcdefghijklmnopqrst" :> <<"a","b","c","d","e","f","g","h","i","j","k","l","m","n","o","p","q","r","s","t">>)
        @@ ("{U+001B}[0;32mI (1234) wifi: IP:192.168.1.42{U+001B}[0m" :> <<"U+001B","[","0",";","3","2","m","I"," ","(","1","2","3","4",")"," ","w","i","f","i",":"," ","I","P",":","1","9","2",".","1","6","8",".","1",".","4","2","U+001B","[","0","m">>))
    @@ (("I (1234) wifi: IP:192.168.1.42" :> <<"I"," ","(","1","2","3","4",")"," ","w","i","f","i",":"," ","I","P",":","1","9","2",".","1","6","8",".","1",".","4","2">>)
        @@ ("{U+001B}[0;32mI (5) aws: Connected to AWS IoT as dev1{U+001B}[0m" :> <<"U+001B","[","0",";","3","2","m","I"," ","(","5",")"," ","a","w","s",":"," ","C","o","n","n","e","c","t","e","d"," ","t","o"," ","A","W","S"," ","I","o","T"," ","a","s"," ","d","e","v","1","U+001B","[","0","m">>)
        @@ ("I (5) aws: Connected to AWS IoT as dev1" :> <<"I"," ","(","5",")"," ","a","w","s",":"," ","C","o","n","n","e","c","t","e","d"," ","t","o"," ","A","W","S"," ","I","o","T"," ","a","s"," ","d","e","v","1">>)
        @@ ("IP: {U+001B}[1m192.168.1.42{U+001B}[0m" :> <<"I","P",":"," ","U+001B","[","1","m","1","9","2",".","1","6","8",".","1",".","4","2","U+001B","[","0","m">>)
        @@ ("IP: 192.168.1.42" :> <<"I","P",":"," ","1","9","2",".","1","6","8",".","1",".","4","2">>)
        @@ ("dev1{U+001B}[0m" :> <<"d","e","v","1","U+001B","[","0","m">>)
        @@ ("ESP-ROM:esp32s3-20210327" :> <<"E","S","P","-","R","O","M",":","e","s","p","3","2","s","3","-","2","0","2","1","0","3","2","7">>)
        @@ ("I (24) boot: ESP-IDF v5.1.2 2nd stage bootloader" :> <<"I"," ","(","2","4",")"," ","b","o","o","t",":"," ","E","S","P","-","I","D","F"," ","v","5",".","1",".","2"," ","2","n","d"," ","s","t","a","g","e"," ","b","o","o","t","l","o","a","d","e","r">>)
        @@ ("I (512) wifi_mgr: Wi-Fi connected" :> <<"I"," ","(","5","1","2",")"," ","w","i","f","i","_","m","g","r",":"," ","W","i","-","F","i"," ","c","o","n","n","e","c","t","e","d">>)
        @@ ("E (700) spotify: init failed" :> <<"E"," ","(","7","0","0",")"," ","s","p","o","t","i","f","y",":"," ","i","n","i","t"," ","f","a","i","l","e","d">>)
        @@ ("ESP-IDF v" :> <<"E","S","P","-","I","D","F"," ","v">>)
        @@ ("2nd stage bootloader" :> <<"2","n","d"," ","s","t","a","g","e"," ","b","o","o","t","l","o","a","d","e","r">>)
        @@ ("ESP-ROM:" :> <<"E","S","P","-","R","O","M",":">>)
        @@ ("connected with" :> <<"c","o","n","n","e","c","t","e","d"," ","w","i","t","h">>)
        @@ ("aid =" :> <<"a","i","d"," ","=">>)
        @@ ("sta ip: " :> <<"s","t","a"," ","i","p",":"," ">>)
        @@ ("IP:" :> <<"I","P",":">>)
        @@ ("IP address" :> <<"I","P"," ","a","d","d","r","e","s","s">>)
        @@ ("LED controller initialized" :> <<"L","E","D"," ","c","o","n","t","r","o","l","l","e","r"," ","i","n","i","t","i","a","l","i","z","e","d">>)
        @@ ("WS2812 strip" :> <<"W","S","2","8","1","2"," ","s","t","r","i","p">>)
        @@ ("led_controller:" :> <<"l","e","d","_","c","o","n","t","r","o","l","l","e","r",":">>)
        @@ ("Korvo-1 microphone initialized" :> <<"K","o","r","v","o","-","1"," ","m","i","c","r","o","p","h","o","n","e"," ","i","n","i","t","i","a","l","i","z","e","d">>)
        @@ ("I2S driver installed" :> <<"I","2","S"," ","d","r","i","v","e","r"," ","i","n","s","t","a","l","l","e","d">>)
        @@ ("korvo_audio:" :> <<"k","o","r","v","o","_","a","u","d","i","o",":">>)
        @@ ("Starting continuous realtime audio streaming" :> <<"S","t","a","r","t","i","n","g"," ","c","o","n","t","i","n","u","o","u","s"," ","r","e","a","l","t","i","m","e"," ","a","u","d","i","o"," ","s","t","r","e","a","m","i","n","g">>))
    @@ (("Pipeline: I2S" :> <<"P","i","p","e","l","i","n","e",":"," ","I","2","S">>)
        @@ ("voice_pipeline:" :> <<"v","o","i","c","e","_","p","i","p","e","l","i","n","e",":">>)
        @@ ("OpenAI Realtime API started" :> <<"O","p","e","n","A","I"," ","R","e","a","l","t","i","m","e"," ","A","P","I"," ","s","t","a","r","t","e","d">>)
        @@ ("openai_client:" :> <<"o","p","e","n","a","i","_","c","l","i","e","n","t",":">>)
        @@ ("Realtime" :> <<"R","e","a","l","t","i","m","e">>)
        @@ ("WebSocket connected to OpenAI Realtime API" :> <<"W","e","b","S","o","c","k","e","t"," ","c","o","n","n","e","c","t","e","d"," ","t","o"," ","O","p","e","n","A","I"," ","R","e","a","l","t","i","m","e"," ","A","P","I">>)
        @@ ("websocket_client:" :> <<"w","e","b","s","o","c","k","e","t","_","c","l","i","e","n","t",":">>)
        @@ ("Session created: " :> <<"S","e","s","s","i","o","n"," ","c","r","e","a","t","e","d",":"," ">>)
        @@ ("Assistant ready:" :> <<"A","s","s","i","s","t","a","n","t"," ","r","e","a","d","y",":">>)
        @@ ("WakeNet" :> <<"W","a","k","e","N","e","t">>)
        @@ ("enabled" :> <<"e","n","a","b","l","e","d">>)
        @@ ("WakeNet9l" :> <<"W","a","k","e","N","e","t","9","l">>)
        @@ ("local control" :> <<"l","o","c","a","l"," ","c","o","n","t","r","o","l">>)
        @@ ("Spotify" :> <<"S","p","o","t","i","f","y">>)
        @@ ("spotify_client: Init" :> <<"s","p","o","t","i","f","y","_","c","l","i","e","n","t",":"," ","I","n","i","t">>)
        @@ ("AWS IoT" :> <<"A","W","S"," ","I","o","T">>)
        @@ ("aws_iot" :> <<"a","w","s","_","i","o","t">>)
        @@ ("[0;31mE (" :> <<"[","0",";","3","1","m","E"," ","(">>)
        @@ ("E (" :> <<"E"," ","(">>)
        @@ (") " :> <<")"," ">>)
        @@ (":" :> <<":">>)
        @@ ("Failed" :> <<"F","a","i","l","e","d">>)
        @@ ("[0;33mW (" :> <<"[","0",";","3","3","m","W"," ","(">>)
        @@ ("W (" :> <<"W"," ","(">>)
        @@ ("warn" :> <<"w","a","r","n">>))
    @@ (("Warning" :> <<"W","a","r","n","i","n","g">>)
        @@ ("E (5) boot: ESP-ROM: load failed" :> <<"E"," ","(","5",")"," ","b","o","o","t",":"," ","E","S","P","-","R","O","M",":"," ","l","o","a","d"," ","f","a","i","l","e","d">>)
        @@ ("detected" :> <<"d","e","t","e","c","t","e","d">>)
        @@ ("energy" :> <<"e","n","e","r","g","y">>)
        @@ ("simulated" :> <<"s","i","m","u","l","a","t","e","d">>)
        @@ ("{U+00F0}{U+0178}{U+017D}{U+2122}{U+00EF}{U+00B8}" :> <<"U+00F0","U+0178","U+017D","U+2122","U+00EF","U+00B8">>)
        @@ ("{U+00F0}{U+0178}{U+2019}{U+00AC}" :> <<"U+00F0","U+0178","U+2019","U+00AC">>)
        @@ ("{U+00F0}{U+0178}{U+201D}{U+0160}" :> <<"U+00F0","U+0178","U+201D","U+0160">>)
        @@ ("gemini live" :> <<"g","e","m","i","n","i"," ","l","i","v","e">>)
        @@ ("speech started" :> <<"s","p","e","e","c","h"," ","s","t","a","r","t","e","d">>)
        @@ ("accumulating" :> <<"a","c","c","u","m","u","l","a","t","i","n","g">>)
        @@ ("speech ended" :> <<"s","p","e","e","c","h"," ","e","n","d","e","d">>)
        @@ ("processing batch stt" :> <<"p","r","o","c","e","s","s","i","n","g"," ","b","a","t","c","h"," ","s","t","t">>)
        @@ ("gemini: processing batch stt" :> <<"g","e","m","i","n","i",":"," ","p","r","o","c","e","s","s","i","n","g"," ","b","a","t","c","h"," ","s","t","t">>)
        @@ ("gemini: speech ended" :> <<"g","e","m","i","n","i",":"," ","s","p","e","e","c","h"," ","e","n","d","e","d">>)
        @@ ("pathway start" :> <<"p","a","t","h","w","a","y"," ","s","t","a","r","t">>)
        @@ ("pathway complete" :> <<"p","a","t","h","w","a","y"," ","c","o","m","p","l","e","t","e">>)
        @@ ("step 1/3: stt" :> <<"s","t","e","p"," ","1","/","3",":"," ","s","t","t">>)
        @@ ("step 1/3: stt -" :> <<"s","t","e","p"," ","1","/","3",":"," ","s","t","t"," ","-">>)
        @@ ("step 2/3: llm" :> <<"s","t","e","p"," ","2","/","3",":"," ","l","l","m">>)
        @@ ("step 2/3: llm -" :> <<"s","t","e","p"," ","2","/","3",":"," ","l","l","m"," ","-">>)
        @@ ("{U+00F0}{U+0178}{U+2019}{U+00AC} [gemini live] step 2/3: llm" :> <<"U+00F0","U+0178","U+2019","U+00AC"," ","[","g","e","m","i","n","i"," ","l","i","v","e","]"," ","s","t","e","p"," ","2","/","3",":"," ","l","l","m">>)
        @@ ("step 3/3: tts" :> <<"s","t","e","p"," ","3","/","3",":"," ","t","t","s">>)
        @@ ("step 3/3: tts -" :> <<"s","t","e","p"," ","3","/","3",":"," ","t","t","s"," ","-">>)
        @@ ("{U+00E2}{U+0153}{U+2026} step 1/3: stt success" :> <<"U+00E2","U+0153","U+2026"," ","s","t","e","p"," ","1","/","3",":"," ","s","t","t"," ","s","u","c","c","e","s","s">>))
    @@ (("{U+00E2}{U+0153}{U+2026} step 2/3: llm success" :> <<"U+00E2","U+0153","U+2026"," ","s","t","e","p"," ","2","/","3",":"," ","l","l","m"," ","s","u","c","c","e","s","s">>)
        @@ ("{U+00E2}{U+0153}{U+2026} [gemini live] step 2/3: llm success" :> <<"U+00E2","U+0153","U+2026"," ","[","g","e","m","i","n","i"," ","l","i","v","e","]"," ","s","t","e","p"," ","2","/","3",":"," ","l","l","m"," ","s","u","c","c","e","s","s">>)
        @@ ("{U+00E2}{U+0153}{U+2026} step 3/3: tts success" :> <<"U+00E2","U+0153","U+2026"," ","s","t","e","p"," ","3","/","3",":"," ","t","t","s"," ","s","u","c","c","e","s","s">>)
        @@ ("{U+00E2}{U+0152} step" :> <<"U+00E2","U+0152"," ","s","t","e","p">>)
        @@ ("step 1/3" :> <<"s","t","e","p"," ","1","/","3">>)
        @@ ("step 2/3" :> <<"s","t","e","p"," ","2","/","3">>)
        @@ ("step 3/3" :> <<"s","t","e","p"," ","3","/","3">>)
        @@ ("gemini stt:" :> <<"g","e","m","i","n","i"," ","s","t","t",":">>)
        @@ ("{U+00F0}{U+0178}{U+201D}{U+0160} [gemini stt]" :> <<"U+00F0","U+0178","U+201D","U+0160"," ","[","g","e","m","i","n","i"," ","s","t","t","]">>)
        @@ ("vad" :> <<"v","a","d">>)
        @@ ("active" :> <<"a","c","t","i","v","e">>)
        @@ ("speech" :> <<"s","p","e","e","c","h">>)
        @@ ("sending to gemini" :> <<"s","e","n","d","i","n","g"," ","t","o"," ","g","e","m","i","n","i">>)
        @@ ("{U+00F0}{U+0178}{U+2019}{U+00AC} [gemini llm]" :> <<"U+00F0","U+0178","U+2019","U+00AC"," ","[","g","e","m","i","n","i"," ","l","l","m","]">>)
        @@ ("gemini chat response:" :> <<"g","e","m","i","n","i"," ","c","h","a","t"," ","r","e","s","p","o","n","s","e",":">>)
        @@ ("{U+00E2}{U+0153}{U+2026} [gemini llm] success" :> <<"U+00E2","U+0153","U+2026"," ","[","g","e","m","i","n","i"," ","l","l","m","]"," ","s","u","c","c","e","s","s">>)
        @@ ("tts generated" :> <<"t","t","s"," ","g","e","n","e","r","a","t","e","d">>)
        @@ ("tts generation" :> <<"t","t","s"," ","g","e","n","e","r","a","t","i","o","n">>)
        @@ ("tts playback" :> <<"t","t","s"," ","p","l","a","y","b","a","c","k">>)
        @@ ("complete" :> <<"c","o","m","p","l","e","t","e">>)
        @@ ("finished" :> <<"f","i","n","i","s","h","e","d">>)
        @@ ("started" :> <<"s","t","a","r","t","e","d">>)
        @@ ("{U+00F0}{U+0178}{U+201D}{U+0160} [gemini tts]" :> <<"U+00F0","U+0178","U+201D","U+0160"," ","[","g","e","m","i","n","i"," ","t","t","s","]">>)
        @@ ("generating speech" :> <<"g","e","n","e","r","a","t","i","n","g"," ","s","p","e","e","c","h">>)
        @@ ("pathway" :> <<"p","a","t","h","w","a","y">>))
    @@ (("start" :> <<"s","t","a","r","t">>)
        @@ ("continued" :> <<"c","o","n","t","i","n","u","e","d">>)
        @@ ("{U+00F0}{U+0178}{U+201D}{U+00A7} [gemini tools]" :> <<"U+00F0","U+0178","U+201D","U+00A7"," ","[","g","e","m","i","n","i"," ","t","o","o","l","s","]">>)
        @@ ("gemini tools" :> <<"g","e","m","i","n","i"," ","t","o","o","l","s">>)
        @@ ("{U+00F0}{U+0178}{U+201D}{U+00A7} [gemini llm] function call detected" :> <<"U+00F0","U+0178","U+201D","U+00A7"," ","[","g","e","m","i","n","i"," ","l","l","m","]"," ","f","u","n","c","t","i","o","n"," ","c","a","l","l"," ","d","e","t","e","c","t","e","d">>)
        @@ ("executing function" :> <<"e","x","e","c","u","t","i","n","g"," ","f","u","n","c","t","i","o","n">>)
        @@ ("set_leds" :> <<"s","e","t","_","l","e","d","s">>)
        @@ ("on" :> <<"o","n">>)
        @@ ("off" :> <<"o","f","f">>)
        @@ ("set_led_color" :> <<"s","e","t","_","l","e","d","_","c","o","l","o","r">>)
        @@ ("{U+00E2}{U+0152}" :> <<"U+00E2","U+0152">>)
        @@ ("scanning" :> <<"s","c","a","n","n","i","n","g">>)
        @@ ("sensor bus" :> <<"s","e","n","s","o","r"," ","b","u","s">>)
        @@ ("audio bus" :> <<"a","u","d","i","o"," ","b","u","s">>)
        @@ ("found device at address" :> <<"f","o","u","n","d"," ","d","e","v","i","c","e"," ","a","t"," ","a","d","d","r","e","s","s">>)
        @@ ("device at address" :> <<"d","e","v","i","c","e"," ","a","t"," ","a","d","d","r","e","s","s">>)
        @@ ("total:" :> <<"t","o","t","a","l",":">>)
        @@ ("device" :> <<"d","e","v","i","c","e">>)
        @@ ("found on" :> <<"f","o","u","n","d"," ","o","n">>)
        @@ ("end scan of" :> <<"e","n","d"," ","s","c","a","n"," ","o","f">>)
        @@ ("failed to create scan bus" :> <<"f","a","i","l","e","d"," ","t","o"," ","c","r","e","a","t","e"," ","s","c","a","n"," ","b","u","s">>)
        @@ ("failed to initialize i2c bus" :> <<"f","a","i","l","e","d"," ","t","o"," ","i","n","i","t","i","a","l","i","z","e"," ","i","2","c"," ","b","u","s">>)
        @@ ("i2c_num_0" :> <<"i","2","c","_","n","u","m","_","0">>)
        @@ ("i2c" :> <<"i","2","c">>)
        @@ ("conflict" :> <<"c","o","n","f","l","i","c","t">>))
    @@ (("already" :> <<"a","l","r","e","a","d","y">>)
        @@ ("busy" :> <<"b","u","s","y">>)
        @@ ("in use" :> <<"i","n"," ","u","s","e">>)
        @@ ("led[" :> <<"l","e","d","[">>)
        @@ ("]:" :> <<"]",":">>)
        @@ ("firmware version" :> <<"f","i","r","m","w","a","r","e"," ","v","e","r","s","i","o","n">>)
        @@ ("git date:" :> <<"g","i","t"," ","d","a","t","e",":">>)
        @@ ("build time:" :> <<"b","u","i","l","d"," ","t","i","m","e",":">>)
        @@ ("sensor_integration" :> <<"s","e","n","s","o","r","_","i","n","t","e","g","r","a","t","i","o","n">>)
        @@ ("WIFI" :> <<"W","I","F","I">>)
        @@ ("SPOTIFY" :> <<"S","P","O","T","I","F","Y">>)
        @@ ("AWS" :> <<"A","W","S">>)
        @@ ("WAKE_WORD" :> <<"W","A","K","E","_","W","O","R","D">>)
        @@ ("MUTE" :> <<"M","U","T","E">>)
        @@ ("AUDIO_PLAYBACK" :> <<"A","U","D","I","O","_","P","L","A","Y","B","A","C","K">>)
        @@ ("FOO" :> <<"F","O","O">>)
        @@ ("Wake word detected" :> <<"W","a","k","e"," ","w","o","r","d"," ","d","e","t","e","c","t","e","d">>)
        @@ ("sensors: wake detected" :> <<"s","e","n","s","o","r","s",":"," ","w","a","k","e"," ","d","e","t","e","c","t","e","d">>)
        @@ ("Gemini Live pathway failed: error" :> <<"G","e","m","i","n","i"," ","L","i","v","e"," ","p","a","t","h","w","a","y"," ","f","a","i","l","e","d",":"," ","e","r","r","o","r">>)
        @@ ("Gemini error: timeout" :> <<"G","e","m","i","n","i"," ","e","r","r","o","r",":"," ","t","i","m","e","o","u","t">>)
        @@ ("Wi-Fi connected, IP:192.168.1.42" :> <<"W","i","-","F","i"," ","c","o","n","n","e","c","t","e","d",","," ","I","P",":","1","9","2",".","1","6","8",".","1",".","4","2">>)
        @@ ("LED[WIFI]: RGB(0,120,120)" :> <<"L","E","D","[","W","I","F","I","]",":"," ","R","G","B","(","0",",","1","2","0",",","1","2","0",")">>)
        @@ ("LED[WIFI]: OFF (R:0 G:0 B:0)" :> <<"L","E","D","[","W","I","F","I","]",":"," ","O","F","F"," ","(","R",":","0"," ","G",":","0"," ","B",":","0",")">>)
        @@ ("LED[FOO]: RGB(1,2,3)" :> <<"L","E","D","[","F","O","O","]",":"," ","R","G","B","(","1",",","2",",","3",")">>)
        @@ ("LED[SPOTIFY]: RGB(5,0,0)" :> <<"L","E","D","[","S","P","O","T","I","F","Y","]",":"," ","R","G","B","(","5",",","0",",","0",")">>))
    @@ (("LED[SPOTIFY]: RGB(0,0,0)" :> <<"L","E","D","[","S","P","O","T","I","F","Y","]",":"," ","R","G","B","(","0",",","0",",","0",")">>)
        @@ ("Gemini tools: set_leds(SPOTIFY, on)" :> <<"G","e","m","i","n","i"," ","t","o","o","l","s",":"," ","s","e","t","_","l","e","d","s","(","S","P","O","T","I","F","Y",","," ","o","n",")">>)
        @@ ("Gemini tools: set_leds(SPOTIFY, off)" :> <<"G","e","m","i","n","i"," ","t","o","o","l","s",":"," ","s","e","t","_","l","e","d","s","(","S","P","O","T","I","F","Y",","," ","o","f","f",")">>)
        @@ ("gemini tools: set_leds on" :> <<"g","e","m","i","n","i"," ","t","o","o","l","s",":"," ","s","e","t","_","l","e","d","s"," ","o","n">>)
        @@ ("Scanning Audio Bus" :> <<"S","c","a","n","n","i","n","g"," ","A","u","d","i","o"," ","B","u","s">>)
        @@ ("Scanning Sensor Bus (SDA=GPIO44, SCL=GPIO43)" :> <<"S","c","a","n","n","i","n","g"," ","S","e","n","s","o","r"," ","B","u","s"," ","(","S","D","A","=","G","P","I","O","4","4",","," ","S","C","L","=","G","P","I","O","4","3",")">>)
        @@ ("Found device at address 0x44" :> <<"F","o","u","n","d"," ","d","e","v","i","c","e"," ","a","t"," ","a","d","d","r","e","s","s"," ","0","x","4","4">>)
        @@ ("Found device at address 0x29" :> <<"F","o","u","n","d"," ","d","e","v","i","c","e"," ","a","t"," ","a","d","d","r","e","s","s"," ","0","x","2","9">>)
        @@ ("=== End scan of Audio Bus ===" :> <<"=","=","="," ","E","n","d"," ","s","c","a","n"," ","o","f"," ","A","u","d","i","o"," ","B","u","s"," ","=","=","=">>)
        @@ ("=== End scan of Sensor Bus ===" :> <<"=","=","="," ","E","n","d"," ","s","c","a","n"," ","o","f"," ","S","e","n","s","o","r"," ","B","u","s"," ","=","=","=">>)
        @@ ("Total: 2 device(s) found on Sensor Bus" :> <<"T","o","t","a","l",":"," ","2"," ","d","e","v","i","c","e","(","s",")"," ","f","o","u","n","d"," ","o","n"," ","S","e","n","s","o","r"," ","B","u","s">>)
        @@ ("Found device at address 0x1A on Audio Bus" :> <<"F","o","u","n","d"," ","d","e","v","i","c","e"," ","a","t"," ","a","d","d","r","e","s","s"," ","0","x","1","A"," ","o","n"," ","A","u","d","i","o"," ","B","u","s">>))

Chars(s) == StrTab[s]

Upper == <<"A","B","C","D","E","F","G","H","I","J","K","L","M",
           "N","O","P","Q","R","S","T","U","V","W","X","Y","Z">>

Lowercase == <<"a","b","c","d","e","f","g","h","i","j","k","l","m",
           "n","o","p","q","r","s","t","u","v","w","x","y","z">>

\* str.lower(), one character
LowerChar(c) ==
    IF \E i \in 1..26 : Upper[i] = c
    THEN Lowercase[CHOOSE i \in 1..26 : Upper[i] = c]
    ELSE c

\* str.lower()
Lower(t) == [i \in 1..Len(t) |-> LowerChar(t[i])]

Whitespace == {" ", "\t", "\n", "\r"}

Digit == {"0","1","2","3","4","5","6","7","8","9"}

HexDigit == Digit \cup {"a","b","c","d","e","f"}

\* k occurs in t at position i
At(k, t, i) == i >= 1 /\ i + Len(k) - 1 <= Len(t) /\ SubSeq(t, i, i + Len(k) - 1) = k

\* Python's `k in t` for strings
Sub(k, t) == \E i \in 1..(Len(t) + 1) : At(k, t, i)

\* the end (exclusive) of the longest run of characters of class cls from p
RunEnd(t, p, cls) ==
    CHOOSE q \in p..(Len(t) + 1) :
        /\ \A j \in p..(q - 1) : t[j] \in cls
        /\ (q = Len(t) + 1 \/ t[q] \notin cls)

\* the end of the longest run of characters outside class cls from p
RunEndNot(t, p, cls) ==
    CHOOSE q \in p..(Len(t) + 1) :
        /\ \A j \in p..(q - 1) : t[j] \notin cls
        /\ (q = Len(t) + 1 \/ t[q] \in cls)

\* str.strip()
Strip(t) ==
    LET a == RunEnd(t, 1, Whitespace)
        b == IF a > Len(t) THEN a - 1
             ELSE CHOOSE q \in a..Len(t) :
                      /\ t[q] \notin Whitespace
                      /\ \A j \in (q + 1)..Len(t) : t[j] \in Whitespace
    IN  SubSeq(t, a, b)

(***************************************************************************)
(* Regular expressions of parse_log_line, as re.search computes them: the  *)
(* leftmost position at which the pattern matches, greedy quantifiers.     *)
(***************************************************************************)

Min(S) == CHOOSE x \in S : \A y \in S : x <= y

\* The string spelled by t (the inverse of Chars).
Str(t) == CHOOSE s \in DOMAIN StrTab : StrTab[s] = t

\* re.search(lit \s{minws,} ([^excl]+), t): the captured group, or None.
\* The excluded class contains the whitespace, so the greedy \s run never
\* gives a character back.
SearchCapture(lit, t, minws, excl) ==
    LET ok(i) == LET p == i + Len(lit)
                     w == RunEnd(t, p, Whitespace)
                 IN  w - p >= minws /\ RunEndNot(t, w, excl) > w
        hits == {i \in 1..Len(t) : At(lit, t, i) /\ ok(i)}
    IN  IF hits = {} THEN None
        ELSE LET w == RunEnd(t, Min(hits) + Len(lit), Whitespace)
             IN  Str(SubSeq(t, w, RunEndNot(t, w, excl) - 1))

\* re.search(lit \s* ([cls]+), t) matches
SearchClass(lit, t, cls) ==
    \E i \in 1..Len(t) :
        /\ At(lit, t, i)
        /\ LET w == RunEnd(t, i + Len(lit), Whitespace)
           IN  RunEnd(t, w, cls) > w

\* re.search(lit \s* (.+), t) matches: \s* may give characters back, so any
\* character other than a newline after the literal is enough
SearchAny(lit, t) ==
    \E i \in 1..Len(t) :
        /\ At(lit, t, i)
        /\ LET p == i + Len(lit)
           IN  \E q \in p..RunEnd(t, p, Whitespace) : q <= Len(t) /\ t[q] # "\n"

\* m digits-and-dots groups: \d+\.\d+\.\d+\.\d+ from position p; the end
\* (exclusive) of the match, or 0
DottedQuadEnd(t, p) ==
    LET e1 == RunEnd(t, p, Digit)
        e2 == IF e1 > p /\ e1 <= Len(t) /\ t[e1] = "." THEN RunEnd(t, e1 + 1, Digit) ELSE 0
        e3 == IF e2 > e1 + 1 /\ e2 <= Len(t) /\ t[e2] = "." THEN RunEnd(t, e2 + 1, Digit) ELSE 0
        e4 == IF e3 > e2 + 1 /\ e3 <= Len(t) /\ t[e3] = "." THEN RunEnd(t, e3 + 1, Digit) ELSE 0
    IN  IF e1 > p /\ e2 > e1 + 1 /\ e3 > e2 + 1 /\ e4 > e3 + 1 THEN e4 ELSE 0

\* re.search(r'ip:\s*(\d+\.\d+\.\d+\.\d+)', t): the captured address, or None
SearchIp(t) ==
    LET lit == Chars("ip:")
        ok(i) == At(lit, t, i) /\ DottedQuadEnd(t, RunEnd(t, i + Len(lit), Whitespace)) > 0
        hits == {i \in 1..Len(t) : ok(i)}
    IN  IF hits = {} THEN None
        ELSE LET w == RunEnd(t, Min(hits) + Len(lit), Whitespace)
             IN  Str(SubSeq(t, w, DottedQuadEnd(t, w) - 1))

\* re.search('a.*b', t): a, then b anywhere after it
SearchThen(a, b, t) ==
    \E i \in 1..Len(t) : At(a, t, i) /\ \E j \in (i + Len(a))..Len(t) : At(b, t, j)

\* ESC, the first character of an ANSI escape sequence
Esc == "U+001B"

\* the end (exclusive) of a match of \x1b\[[0-9;]+m at position i, or 0
AnsiEnd(t, i) ==
    IF t[i] = Esc /\ i + 1 <= Len(t) /\ t[i + 1] = "["
    THEN LET q == RunEnd(t, i + 2, Digit \cup {";"})
         IN  IF q > i + 2 /\ q <= Len(t) /\ t[q] = "m" THEN q + 1 ELSE 0
    ELSE 0

\* re.sub(r'\033\[[0-9;]+m|\x1b\[[0-9;]+m', '', line) from position i (988)
RECURSIVE StripAnsiFrom(_, _)
StripAnsiFrom(t, i) ==
    IF i > Len(t) THEN <<>>
    ELSE IF AnsiEnd(t, i) > 0 THEN StripAnsiFrom(t, AnsiEnd(t, i))
    ELSE <<t[i]>> \o StripAnsiFrom(t, i + 1)

StripAnsi(t) == StripAnsiFrom(t, 1)

\* int(digits): the value of a decimal numeral
RECURSIVE DecVal(_)
DecVal(t) ==
    IF t = <<>> THEN 0
    ELSE 10 * DecVal(SubSeq(t, 1, Len(t) - 1))
         + (CHOOSE d \in 0..9 : <<"0","1","2","3","4","5","6","7","8","9">>[d + 1] = t[Len(t)])

\* int(h, 16) of one hexadecimal digit
HexVal(h) ==
    CHOOSE d \in 0..15 :
        <<"0","1","2","3","4","5","6","7","8","9","a","b","c","d","e","f">>[d + 1] = LowerChar(h)

\* 917-919: re.search(r'0x([0-9a-fA-F]{2})', line) and int(group(1), 16);
\* -1 when nothing matches
SearchAddr(t) ==
    LET hex == HexDigit \cup {"A","B","C","D","E","F"}
        P == {i \in 1..Len(t) : /\ At(<<"0","x">>, t, i)
                                /\ i + 3 <= Len(t)
                                /\ t[i + 2] \in hex /\ t[i + 3] \in hex}
    IN  IF P = {} THEN -1 ELSE 16 * HexVal(t[Min(P) + 2]) + HexVal(t[Min(P) + 3])

\* \w of a lower-cased text
WordChar == Digit \cup {"_"} \cup {Lowercase[i] : i \in 1..26}

\* str.upper(), one character
UpperChar(c) ==
    IF \E i \in 1..26 : Lowercase[i] = c
    THEN Upper[CHOOSE i \in 1..26 : Lowercase[i] = c]
    ELSE c

NoLedMatch == [kind |-> "none", name |-> "", r |-> 0, g |-> 0, b |-> 0]

\* a match of led_pattern (992) that starts at position i of t:
\*   led\[(\w+)\]:\s*(?:rgb\((\d+),(\d+),(\d+)\)|off(?:\s*\([^)]*\))?)
LedMatchAt(t, i) ==
    IF ~At(<<"l","e","d","[">>, t, i) THEN NoLedMatch
    ELSE LET a  == i + 4
             b  == RunEnd(t, a, WordChar)
             c  == RunEnd(t, b + 2, Whitespace)
             r1 == c + 4
             r2 == RunEnd(t, r1, Digit)
             g1 == r2 + 1
             g2 == RunEnd(t, g1, Digit)
             b1 == g2 + 1
             b2 == RunEnd(t, b1, Digit)
             name == [k \in 1..(b - a) |-> UpperChar(t[a + k - 1])]
         IN  IF ~(b > a /\ At(<<"]",":">>, t, b)) THEN NoLedMatch
             ELSE IF /\ At(<<"r","g","b","(">>, t, c)
                     /\ r2 > r1 /\ At(<<",">>, t, r2)
                     /\ g2 > g1 /\ At(<<",">>, t, g2)
                     /\ b2 > b1 /\ At(<<")">>, t, b2)
             THEN [kind |-> "rgb", name |-> Str(name),
                   r |-> DecVal(SubSeq(t, r1, r2 - 1)),
                   g |-> DecVal(SubSeq(t, g1, g2 - 1)),
                   b |-> DecVal(SubSeq(t, b1, b2 - 1))]
             ELSE IF At(<<"o","f","f">>, t, c)
             THEN [kind |-> "off", name |-> Str(name), r |-> 0, g |-> 0, b |-> 0]
             ELSE NoLedMatch

\* re.search(led_pattern, line_clean_lower) (993): the leftmost match
SearchLed(t) ==
    LET P == {i \in 1..Len(t) : LedMatchAt(t, i).kind # "none"}
    IN  IF P = {} THEN NoLedMatch ELSE LedMatchAt(t, Min(P))

(***************************************************************************)
(* serial_reader, from the bytes of readline() to the text it accepts      *)
(* (1107-1123).  A byte is spelled as the ASCII character it encodes, or   *)
(* as xHH when it is above 0x7F.                                           *)
(***************************************************************************)

\* first bytes of a two-byte UTF-8 sequence (0xC2-0xDF)
Lead2 == {"xC3"}

\* continuation bytes (0x80-0xBF)
Cont == {"xA9"}

\* the bytes above 0x7F: a lead byte, a continuation byte, and 0xFF, which
\* occurs in no UTF-8 sequence
HighBytes == Lead2 \cup Cont \cup {"xFF"}

\* the code point of the two-byte sequence l c: 0xC3 0xA9 is U+00E9
CodePoint(l, c) == "U+00E9"

\* U+FFFD, what errors='replace' puts in the place of an invalid byte
Replacement == "U+FFFD"

\* What the decoder emits at byte i: the character of an ASCII byte, the
\* code point of a lead byte followed by a continuation byte, nothing for
\* that continuation byte, and bad for every other byte.
Emit(bs, i, bad) ==
    IF bs[i] \notin HighBytes THEN bs[i]
    ELSE IF bs[i] \in Lead2 /\ i < Len(bs) /\ bs[i + 1] \in Cont THEN CodePoint(bs[i], bs[i + 1])
    ELSE IF bs[i] \in Cont /\ i > 1 /\ bs[i - 1] \in Lead2 THEN ""
    ELSE bad

Emitted(c) == c # ""

\* bytes.decode('utf-8', errors=...): bad is "" for 'ignore'
DecodeWith(bs, bad) == SelectSeq([i \in 1..Len(bs) |-> Emit(bs, i, bad)], Emitted)

\* line.decode('utf-8', errors='replace')
DecodeReplace(bs) == DecodeWith(bs, Replacement)

\* 1113: line.decode('utf-8', errors='ignore')
Decode(bs) == DecodeWith(bs, "")

\* 1110: the longest line, in bytes, that is decoded
MaxLineLen == 1000

\* 1115: the heuristic looks at texts longer than this
RepeatMinLen == 100

\* 1118: the characters counted, text[:200]
RepeatWindow == 200

\* a reader without the test of 1110
NeverTooLong(bs) == FALSE

\* 1110
TooLong(bs) == Len(bs) > MaxLineLen

Count(ch, t) == Cardinality({i \in 1..Len(t) : t[i] = ch})

\* max(char_counts.values()), 0 for the empty text
MaxCount(t) ==
    IF t = <<>> THEN 0
    ELSE CHOOSE m \in {Count(t[i], t) : i \in 1..Len(t)} :
             \A i \in 1..Len(t) : Count(t[i], t) <= m

\* 1115-1120: max(...) > len(text) * 0.8, in integers
MostlyRepeated(t) ==
    /\ Len(t) > RepeatMinLen
    /\ 5 * MaxCount(IF Len(t) <= RepeatWindow THEN t ELSE SubSeq(t, 1, RepeatWindow))
          > 4 * Len(t)

\* 1108-1123 for the bytes of one readline(): why the line is dropped, or
\* the text that is appended and classified
ReadLine(bs) ==
    IF TooLong(bs) THEN [why |-> "too_long", text |-> None]
    ELSE IF Strip(Decode(bs)) = <<>> THEN [why |-> "empty", text |-> None]
    ELSE IF MostlyRepeated(Strip(Decode(bs))) THEN [why |-> "repeated", text |-> None]
    ELSE [why |-> "accepted", text |-> Str(Strip(Decode(bs)))]

\* ch, n times
Rep(ch, n) == [i \in 1..n |-> ch]

\* abab..., n characters
Alternating(n) == [i \in 1..n |-> IF i % 2 = 1 THEN "a" ELSE "b"]

\* What readline() returns in the runs of SpecRead.
RawTab ==
       ("wifi"    :> Chars("Wi-Fi connected") \o <<"\r", "\n">>)
    @@ ("invalid" :> <<"xA9", "h", "e", "xFF", "l", "l", "o", "xC3", "\n">>)
    @@ ("cafe"    :> <<"c", "a", "f", "xC3", "xA9", "\n">>)
    @@ ("onlybad" :> <<"xFF", "xFF", "\n">>)
    @@ ("ab1001"  :> Alternating(MaxLineLen) \o <<"\n">>)
    @@ ("ab1000"  :> Alternating(MaxLineLen - 1) \o <<"\n">>)
    @@ ("x100"    :> Rep("x", RepeatMinLen) \o <<"\n">>)
    @@ ("x101"    :> Rep("x", RepeatMinLen + 1) \o <<"\n">>)
    @@ ("x80of101" :> Rep("x", 80) \o Chars("abcdefghijklmnopqrstu") \o <<"\n">>)
    @@ ("x81of101" :> Rep("x", 81) \o Chars("abcdefghijklmnopqrst") \o <<"\n">>)
    @@ ("x250"    :> Rep("x", 250) \o <<"\n">>)
    @@ ("yx248"   :> <<"y">> \o Rep("x", 248) \o <<"\n">>)

ReadTab == [n \in DOMAIN RawTab |-> ReadLine(RawTab[n])]

\* the texts the reader accepts in SpecRead
ReadLines == {ReadTab[n].text : n \in DOMAIN RawTab} \ {None}

(***************************************************************************)
(* The lines the device sends                                              *)
(***************************************************************************)

\* "sensors: panic NN": a family of distinct lines, each with a critical
\* keyword and with the marker 'sensors:' that binds the local name time
Fam(n) ==
    LET d == <<"0","1","2","3","4","5","6","7","8","9">>
    IN  Str(Chars("sensors: panic ") \o <<d[(n \div 10) + 1], d[(n % 10) + 1]>>)

FamLines == {Fam(n) : n \in 1..53}

FixedLines ==
    { "Spotify init failed",
      "Guru Meditation Error: Core 0 panic'ed",
      "sensors: fatal error",
      "Certificate discovery failed, using embedded",
      "Connected to AWS IoT as dev1",
      "Connected to AWS IoT as dev2",
      "IP:192.168.1.42",
      "Wi-Fi connected",
      "Firmware Version: 1.2",
      "mqtt telemetry publish success",
      "hello",
      "Wi-Fi disconnected",
      "wifi disconnect reason 8",
      "sta ip: 10.0.0.7, mask: 255.255.255.0, gw: 10.0.0.1",
      "MQTT reconnect: connected to AWS IoT as dev1 (was disconnected)",
      "Spotify: cspot disabled in configuration",
      "Spotify init failed: cspot disabled in configuration",
      "Spotify player playing",
      "Spotify client init",
      "sensors: stack overflow in task main",
      "{U+001B}[0;32mI (1234) wifi: IP:192.168.1.42{U+001B}[0m",
      "I (1234) wifi: IP:192.168.1.42",
      "{U+001B}[0;32mI (5) aws: Connected to AWS IoT as dev1{U+001B}[0m",
      "I (5) aws: Connected to AWS IoT as dev1",
      "IP: {U+001B}[1m192.168.1.42{U+001B}[0m",
      "IP: 192.168.1.42",
      "Wake word detected",
      "sensors: wake detected",
      "Gemini Live pathway failed: error",
      "Gemini error: timeout",
      "Wi-Fi connected, IP:192.168.1.42",
      "LED[WIFI]: RGB(0,120,120)",
      "LED[WIFI]: OFF (R:0 G:0 B:0)",
      "LED[FOO]: RGB(1,2,3)",
      "LED[SPOTIFY]: RGB(5,0,0)",
      "LED[SPOTIFY]: RGB(0,0,0)",
      "Gemini tools: set_leds(SPOTIFY, on)",
      "Gemini tools: set_leds(SPOTIFY, off)",
      "gemini tools: set_leds on",
      "Scanning Audio Bus",
      "Scanning Sensor Bus (SDA=GPIO44, SCL=GPIO43)",
      "Found device at address 0x44",
      "Found device at address 0x29",
      "=== End scan of Audio Bus ===",
      "=== End scan of Sensor Bus ===",
      "Total: 2 device(s) found on Sensor Bus",
      "Found device at address 0x1A on Audio Bus" }

AllLines == FixedLines \cup FamLines \cup ReadLines

\* line.lower(), for every line
LowerTab == [s \in AllLines |-> Lower(StrTab[s])]

\* For every line, the literals of the classifier that occur in line.lower().
HasTab == [s \in AllLines |-> {k \in DOMAIN StrTab : Sub(StrTab[k], LowerTab[s])}]

\* 246-274: the regular expression of the first branch of the firmware
\* cascade whose substring test holds matches (re.IGNORECASE, so on the
\* lower-cased text)
FirmwareMatch(s) ==
    LET tl == LowerTab[s]
    IN  IF "firmware version:" \in HasTab[s]
        THEN SearchCapture(Chars("firmware version:"), tl, 0, Whitespace) # None
        ELSE IF "git commit:" \in HasTab[s]
        THEN SearchClass(Chars("git commit:"), tl, HexDigit)
        ELSE IF "commit date:" \in HasTab[s]
        THEN SearchAny(Chars("commit date:"), tl)
        ELSE IF "build timestamp:" \in HasTab[s]
        THEN SearchAny(Chars("build timestamp:"), tl)
        ELSE IF "esp-idf version:" \in HasTab[s]
        THEN SearchAny(Chars("esp-idf version:"), tl)
        ELSE FALSE

\* The captures of the regular expressions, per line.
CapTab ==
    [s \in AllLines |->
        LET tl == LowerTab[s]
        IN  [ firmware   |-> FirmwareMatch(s),
              ip         |-> SearchIp(tl),
              started_as |-> SearchCapture(Chars("started as"), tl, 1, Whitespace),
              aws_as     |-> SearchCapture(Chars("connected to aws iot as"), tl, 1,
                                           Whitespace \cup {")"}),
              re_conn    |-> \/ SearchThen(Chars("aws"), Chars("connected"), tl)
                             \/ SearchThen(Chars("mqtt"), Chars("connected"), tl)
                             \/ SearchThen(Chars("iot"), Chars("connected"), tl),
              re_fail    |-> \/ SearchThen(Chars("aws"), Chars("failed"), tl)
                             \/ SearchThen(Chars("mqtt"), Chars("failed"), tl)
                             \/ SearchThen(Chars("ssl"), Chars("failed"), tl)
                             \/ SearchThen(Chars("mbedtls"), Chars("failed"), tl),
              addr       |-> IF "device at address" \in HasTab[s]
                             THEN SearchAddr(StrTab[s]) ELSE -1,
              led        |-> IF "led[" \in HasTab[s]
                             THEN SearchLed(Lower(StripAnsi(StrTab[s]))) ELSE NoLedMatch,
              stripped   |-> Str(Strip(Chars(s))) ]]

\* 640, 642, 817: the literals tested on line, not on line_lower
ExactLits ==
    { "{U+00F0}{U+0178}{U+017D}{U+2122}{U+00EF}{U+00B8}",
      "{U+00F0}{U+0178}{U+2019}{U+00AC}",
      "{U+00F0}{U+0178}{U+201D}{U+0160}",
      "{U+00E2}{U+0152}" }

\* For every line, the literals of ExactLits that occur in line.
ExactTab == [s \in AllLines |-> {k \in ExactLits : Sub(StrTab[k], StrTab[s])}]

\* A line as parse_log_line works on it: the text, the literals found in
\* line_lower (243) and the captures of the regular expressions.
Line(s) == [text |-> s, has |-> HasTab[s], cap |-> CapTab[s], exact |-> ExactTab[s]]

\* `k in line_lower`
In(k, line) == k \in line.has

\* `k in line`
InExact(k, line) == k \in line.exact

Cap(line) == line.cap

(***************************************************************************)
(* The status store                                                        *)
(***************************************************************************)

\* 851: the retention cap of the error log
ErrorCap == 50

\* 5084, 5098: the length above which on_mqtt_message evicts from status['logs']
MqttLogCap == 1000

\* 87-94: the value every LED of status['leds'] starts with
LedOff == [r |-> 0, g |-> 0, b |-> 0, state |-> "OFF"]

\* 139-154: a bus of status['i2c_scan'] before any scan
NotScanned == [devices |-> <<>>, status |-> "Not scanned"]

\* status as the module defines it (45-157)
InitStatus ==
    [ wifi             |-> "Unknown",
      wifi_ip          |-> None,
      spotify          |-> "Unknown",
      spotify_detail   |-> None,
      aws              |-> "Unknown",
      aws_device_id    |-> None,
      serial_connected |-> FALSE,
      serial_port      |-> "",
      wake_word        |-> FALSE,
      leds             |-> [WIFI |-> LedOff, SPOTIFY |-> LedOff, AWS |-> LedOff,
                            WAKE_WORD |-> LedOff, MUTE |-> LedOff, AUDIO_PLAYBACK |-> LedOff],
      stats            |-> [wake_events |-> 0, wifi_connects |-> 0, errors |-> 0,
                            gemini_errors |-> 0],
      i2c_scan         |-> [sensor_bus |-> NotScanned, audio_bus |-> NotScanned],
      error_log        |-> <<>>,
      last_boot_time   |-> None,
      reboot_detected  |-> FALSE,
      logs             |-> <<>> ]

\* 87-94: the keys of status['leds']
LedNames == DOMAIN InitStatus.leds

\* status[p[1]] = v, status[p[1]][p[2]] = v, or status[p[1]][p[2]][p[3]] = v
SetPath(st, p, v) ==
    IF Len(p) = 1 THEN [st EXCEPT ![p[1]] = v]
    ELSE IF Len(p) = 2 THEN [st EXCEPT ![p[1]][p[2]] = v]
    ELSE [st EXCEPT ![p[1]][p[2]][p[3]] = v]

GetPath(st, p) ==
    IF Len(p) = 1 THEN st[p[1]]
    ELSE IF Len(p) = 2 THEN st[p[1]][p[2]]
    ELSE st[p[1]][p[2]][p[3]]

\* list.sort() of a list of numbers
RECURSIVE Sorted(_)
Sorted(q) ==
    IF q = <<>> THEN <<>>
    ELSE LET m == Min({q[i] : i \in 1..Len(q)})
             k == Min({i \in 1..Len(q) : q[i] = m})
         IN  <<m>> \o Sorted([i \in 1..(Len(q) - 1) |-> IF i < k THEN q[i] ELSE q[i + 1]])

\* q[:n]
FirstN(q, n) == IF Len(q) <= n THEN q ELSE SubSeq(q, 1, n)

\* The last n elements of q: q[-n:]
LastN(q, n) == IF Len(q) <= n THEN q ELSE SubSeq(q, Len(q) - n + 1, Len(q))

\* One statement of parse_log_line that writes the store.
\*   set: an assignment; inc: += 1; append_error: status['error_log'].append;
\*   trim_errors: 851-852; save: save_error_log(), which leaves the store alone;
\*   append: .append(val) on the list at path; sort: .sort() of that list;
\*   bus: the global current_scanning_bus is assigned; thread: a reset_wake
\*   thread is started (neither writes the store)
ApplyOp(st, op) ==
    CASE op.op = "set"          -> SetPath(st, op.path, op.val)
      [] op.op = "inc"          -> SetPath(st, op.path, GetPath(st, op.path) + 1)
      [] op.op = "append_error" -> [st EXCEPT !.error_log = Append(@, [message |-> op.val])]
      [] op.op = "trim_errors"  -> IF Len(st.error_log) > ErrorCap
                                   THEN [st EXCEPT !.error_log = LastN(@, ErrorCap)]
                                   ELSE st
      [] op.op = "save"         -> st
      [] op.op = "append"       -> SetPath(st, op.path, Append(GetPath(st, op.path), op.val))
      [] op.op = "sort"         -> SetPath(st, op.path, Sorted(GetPath(st, op.path)))
      [] op.op = "bus"          -> st
      [] op.op = "thread"       -> st

SetOp(p, v) == [op |-> "set", path |-> p, val |-> v]

IncOp(p) == [op |-> "inc", path |-> p, val |-> None]

RECURSIVE ApplyAll(_, _)
ApplyAll(st, ops) ==
    IF ops = <<>> THEN st ELSE ApplyAll(ApplyOp(st, Head(ops)), Tail(ops))

(***************************************************************************)
(* parse_log_line (238-1011)                                               *)
(*                                                                         *)
(* A call is folded over the sections of the function in source order.     *)
(* The context c carries the store as the call sees it, the statements     *)
(* executed so far (ops), whether the function-local name time is bound    *)
(* (the function holds `import time` at 569, inside the 'sensors:' branch, *)
(* which makes time a local of the whole function), and the exception      *)
(* that ended the call, if any.  The parameter s is the line, Line(text).   *)
(* bus is the module's global current_scanning_bus (166, 897), which the   *)
(* call reads and assigns.                                                 *)
(***************************************************************************)

Ctx(st) == [st |-> st, time |-> FALSE, ops |-> <<>>, exc |-> None,
            bus |-> current_scanning_bus]

\* The call executes the statements ops.
DoAll(c, ops) == [c EXCEPT !.st = ApplyAll(c.st, ops), !.ops = c.ops \o ops]

Do(c, op) == DoAll(c, <<op>>)

Do2(c, o1, o2) == DoAll(c, <<o1, o2>>)

Raise(c, e) == [c EXCEPT !.exc = e]

\* 245-274: status['firmware'] is no key of status
SecFirmware(c, s) ==
    IF c.exc # None THEN c
    ELSE IF Cap(s).firmware THEN Raise(c, "KeyError") ELSE c

\* the Wi-Fi chain with the disconnect rule tested before the connect rule
SecWifiDisconnectFirst(c, s) ==
    IF c.exc # None THEN c
    ELSE IF ~(In("wifi", s) \/ In("wi-fi", s)) THEN c
    ELSE IF In("disconnect", s) \/ In("disconnected", s)
         THEN Do(c, SetOp(<<"wifi">>, "Disconnected"))
    ELSE IF In("connected", s)
         THEN IF ~In("failed", s) /\ ~In("fail", s)
              THEN Do2(c, SetOp(<<"wifi">>, "Connected"), IncOp(<<"stats", "wifi_connects">>))
              ELSE c
    ELSE c

\* 323-340
SecWifi(c, s) ==
    IF c.exc # None THEN c
    ELSE IF ~(In("wifi", s) \/ In("wi-fi", s)) THEN c
    ELSE IF In("connected", s)
         THEN IF ~In("failed", s) /\ ~In("fail", s)
              THEN Do2(c, SetOp(<<"wifi">>, "Connected"), IncOp(<<"stats", "wifi_connects">>))
              ELSE c
    ELSE IF In("disconnect", s) \/ In("disconnected", s)
         THEN Do(c, SetOp(<<"wifi">>, "Disconnected"))
    ELSE IF In("connect failed", s) \/ In("connect fail", s)
         THEN Do(c, SetOp(<<"wifi">>, "Failed"))
    ELSE IF In("connecting to", s) /\ In("ssid", s)
         THEN Do(c, SetOp(<<"wifi">>, "Connecting"))
    ELSE c

\* 344-352 without the assignment of the address
SecIpLinkOnly(c, s) ==
    IF c.exc # None THEN c
    ELSE IF In("ip:", s) /\ Cap(s).ip # None
         THEN Do2(c, SetOp(<<"wifi">>, "Connected"), IncOp(<<"stats", "wifi_connects">>))
    ELSE c

\* 342-353
SecIp(c, s) ==
    IF c.exc # None THEN c
    ELSE IF In("ip:", s) /\ Cap(s).ip # None
         THEN DoAll(c, << SetOp(<<"wifi">>, "Connected"), SetOp(<<"wifi_ip">>, Cap(s).ip),
                          IncOp(<<"stats", "wifi_connects">>) >>)
    ELSE c

SpotifySet(c, v, d) == Do2(c, SetOp(<<"spotify">>, v), SetOp(<<"spotify_detail">>, d))

\* 359-448: the cspot messages; TRUE when one branch of the chain is taken
SpotifyCspotTaken(s) ==
    \/ In("cspot", s) /\ In("disabled", s) /\ In("configuration", s)
    \/ In("starting spotify connect", s) /\ In("cspot", s)
    \/ In("starting spotify connect", s) /\ In("player", s)
    \/ In("spotify connect player started successfully", s)
    \/ In("waiting for spotify app to provision credentials via zeroconf", s)
    \/ In("received spotify login blob over zeroconf", s)
    \/ In("cspot mdn", s) \/ In("mdns initialized", s)
    \/ In("loaded spotify credentials from disk", s)
    \/ In("spotify connect session started as", s) \/ In("connect session started as", s)
    \/ In("entering cspot packet handling loop", s)
    \/ In("spotify player playing", s)
    \/ In("spotify player paused", s)
    \/ In("spotify playback started", s)
    \/ In("spotify volume ->", s) \/ In("spotify volume:", s)
    \/ In("spotify track metadata updated", s)
    \/ In("spotify session lost", s) \/ In("waiting for reconnect", s)
    \/ In("spotify connect player failed to start", s)
    \/ In("unable to obtain spotify credentials", s)
    \/ In("spotify authentication failed", s)

\* 359-448
SpotifyCspot(c, s) ==
    IF In("cspot", s) /\ In("disabled", s) /\ In("configuration", s)
    THEN SpotifySet(c, "cspot Disabled",
             "cspot not enabled - rebuild firmware with CONFIG_KVA_SPOTIFY_USE_CSPOT=y")
    ELSE IF \/ In("starting spotify connect", s) /\ In("cspot", s)
            \/ In("starting spotify connect", s) /\ In("player", s)
    THEN SpotifySet(c, "Initializing", "Starting cspot player...")
    ELSE IF In("spotify connect player started successfully", s)
    THEN SpotifySet(c, "Initializing", "cspot player started, initializing...")
    ELSE IF In("waiting for spotify app to provision credentials via zeroconf", s)
    THEN SpotifySet(c, "Waiting for Pairing",
             "Ready to pair - open Spotify app and look for device")
    ELSE IF In("received spotify login blob over zeroconf", s)
    THEN SpotifySet(c, "Pairing Complete", "Credentials received, starting session...")
    ELSE IF In("cspot mdn", s) \/ In("mdns initialized", s)
    THEN SpotifySet(c, "Initializing", "mDNS registering...")
    ELSE IF In("loaded spotify credentials from disk", s)
    THEN SpotifySet(c, "Connecting", "Using saved credentials...")
    ELSE IF In("spotify connect session started as", s) \/ In("connect session started as", s)
    THEN IF Cap(s).started_as # None
         THEN SpotifySet(c, "Connected",
                  Str(Chars("Connected as: ") \o Chars(Cap(s).started_as)))
         ELSE SpotifySet(c, "Connected", "Spotify Connect active")
    ELSE IF In("entering cspot packet handling loop", s)
    THEN SpotifySet(c, "Connected", "cspot active and ready")
    ELSE IF In("spotify player playing", s)
    THEN SpotifySet(c, "Playing", "Playback active")
    ELSE IF In("spotify player paused", s)
    THEN SpotifySet(c, "Paused", "Playback paused")
    ELSE IF In("spotify playback started", s)
    THEN SpotifySet(c, "Playing", "Playback started")
    ELSE IF In("spotify volume ->", s) \/ In("spotify volume:", s)
    THEN c
    ELSE IF In("spotify track metadata updated", s)
    THEN c
    ELSE IF In("spotify session lost", s) \/ In("waiting for reconnect", s)
    THEN SpotifySet(c, "Disconnected", "Session lost, attempting to reconnect...")
    ELSE IF In("spotify connect player failed to start", s)
    THEN SpotifySet(c, "Init Failed", "cspot player failed to start")
    ELSE IF In("unable to obtain spotify credentials", s)
    THEN SpotifySet(c, "Pairing Failed", "Could not obtain credentials - check network")
    ELSE IF In("spotify authentication failed", s)
    THEN SpotifySet(c, "Auth Failed", "Authentication failed - may need to re-pair")
    ELSE c

\* the test of 452 and 465 taken as always true
AlwaysUnset(c) == TRUE

SpotifyUnset(c) == c.st.spotify \in {"Unknown", None}

\* 450-461: the old spotify_client messages, the last branch of the chain
SpotifyOldClient(c, s) ==
    IF ~SpotifyUnset(c) THEN c
    ELSE IF In("spotify client init failed", s)
    THEN SpotifySet(c, "Init Failed", "Spotify client initialization failed")
    ELSE IF In("spotify client init", s) /\ ~In("failed", s)
    THEN SpotifySet(c, "Initializing", "Spotify client starting...")
    ELSE IF In("init", s) /\ ~In("failed", s) /\ ~In("cspot", s)
    THEN SpotifySet(c, "Ready", "Spotify client ready")
    ELSE c

\* 463-479 without the test of 465
SpotifyGenericUnguarded(c, s) ==
    IF In("connect session started", s) THEN Do(c, SetOp(<<"spotify">>, "Connected"))
    ELSE IF In("session lost", s) \/ In("reconnect", s)
    THEN Do(c, SetOp(<<"spotify">>, "Disconnected"))
    ELSE IF In("authentication failed", s) THEN Do(c, SetOp(<<"spotify">>, "Auth Failed"))
    ELSE IF In("failed", s) \/ In("error", s) THEN Do(c, SetOp(<<"spotify">>, "Error"))
    ELSE IF In("playing", s) /\ ~In("paused", s) THEN Do(c, SetOp(<<"spotify">>, "Playing"))
    ELSE IF In("paused", s) THEN Do(c, SetOp(<<"spotify">>, "Paused"))
    ELSE IF In("resuming", s) \/ In("resume", s) THEN Do(c, SetOp(<<"spotify">>, "Resuming"))
    ELSE c

\* 463-479: the generic status, read after the chain above has written
SpotifyGeneric(c, s) ==
    IF ~SpotifyUnset(c) THEN c
    ELSE IF In("connect session started", s) THEN Do(c, SetOp(<<"spotify">>, "Connected"))
    ELSE IF In("session lost", s) \/ In("reconnect", s)
    THEN Do(c, SetOp(<<"spotify">>, "Disconnected"))
    ELSE IF In("authentication failed", s) THEN Do(c, SetOp(<<"spotify">>, "Auth Failed"))
    ELSE IF In("failed", s) \/ In("error", s) THEN Do(c, SetOp(<<"spotify">>, "Error"))
    ELSE IF In("playing", s) /\ ~In("paused", s) THEN Do(c, SetOp(<<"spotify">>, "Playing"))
    ELSE IF In("paused", s) THEN Do(c, SetOp(<<"spotify">>, "Paused"))
    ELSE IF In("resuming", s) \/ In("resume", s) THEN Do(c, SetOp(<<"spotify">>, "Resuming"))
    ELSE c

\* The element of a singleton set: Only({F(x) : x \in {e}}) is F applied to
\* the value of e.
Only(S) == CHOOSE r \in S : TRUE

\* 355-500
SecSpotify(c, s) ==
    IF c.exc # None THEN c
    ELSE IF ~In("spotify", s) THEN c
    ELSE Only({ SpotifyGeneric(d, s) :
                  d \in { IF SpotifyCspotTaken(s) THEN SpotifyCspot(c, s)
                          ELSE SpotifyOldClient(c, s) } })

\* 502-542; status_lock is defined nowhere in the module
SecAws(c, s) ==
    IF c.exc # None THEN c
    ELSE IF ~(In("aws", s) \/ In("mqtt", s) \/ In("somnus", s)) THEN c
    ELSE IF In("connected to aws iot as", s)
    THEN IF Cap(s).aws_as # None
         THEN Do2(c, SetOp(<<"aws">>, "Connected"), SetOp(<<"aws_device_id">>, Cap(s).aws_as))
         ELSE Do(c, SetOp(<<"aws">>, "Connected"))
    ELSE IF In("aws iot bridge initialized", s) THEN Do(c, SetOp(<<"aws">>, "Initialized"))
    ELSE IF In("somnus mqtt service started", s) THEN Do(c, SetOp(<<"aws">>, "Connecting"))
    ELSE IF In("mqtt service started", s) /\ In("aws", s)
    THEN Do(c, SetOp(<<"aws">>, "Connecting"))
    ELSE IF In("disconnected", s) /\ (In("mqtt", s) \/ In("aws", s))
    THEN Do(c, SetOp(<<"aws">>, "Disconnected"))
    ELSE IF In("failed", s) /\ (In("mqtt", s) \/ In("aws", s) \/ In("somnus", s))
    THEN IF In("init failed", s) THEN Do(c, SetOp(<<"aws">>, "Init Failed"))
         ELSE IF In("start failed", s) THEN Do(c, SetOp(<<"aws">>, "Start Failed"))
         ELSE Do(c, SetOp(<<"aws">>, "Failed"))
    ELSE IF In("telemetry publish", s)
    THEN IF In("failed", s) \/ In("success", s) \/ In("published", s)
         THEN Raise(c, "NameError")
         ELSE c
    ELSE IF Cap(s).re_conn THEN Raise(c, "NameError")
    ELSE IF Cap(s).re_fail THEN Raise(c, "NameError")
    ELSE IF In("telemetry publish failed", s) THEN Raise(c, "NameError")
    ELSE c

\* 566-569: `import time` binds the local name
SecSensors(c, s) ==
    IF c.exc # None THEN c
    ELSE IF In("sensors:", s) THEN [c EXCEPT !.time = TRUE] ELSE c

\* 544-553: the flag is set, the event counted and a reset_wake thread
\* started; the thread op records whether this call goes on to bind the
\* local name time at 569, the cell reset_wake reads
SecWake(c, s) ==
    IF c.exc # None THEN c
    ELSE IF In("wake", s) /\ (In("detected", s) \/ In("energy", s) \/ In("simulated", s))
    THEN DoAll(c, << SetOp(<<"wake_word">>, TRUE), IncOp(<<"stats", "wake_events">>),
                     [op |-> "thread", path |-> <<>>, val |-> In("sensors:", s)] >>)
    ELSE c

\* 247-617: a branch taken before the Gemini rules has run `import re`, which
\* binds the function-local name re
ImportedRe(s) ==
    \/ In("firmware version", s) \/ In("git commit:", s) \/ In("commit date:", s)
    \/ In("build timestamp:", s) \/ In("esp-idf version:", s) \/ In("git date:", s)
    \/ In("build time:", s)
    \/ In("ip:", s)
    \/ In("spotify", s)
    \/ In("aws", s) \/ In("mqtt", s) \/ In("somnus", s)
    \/ In("sensors:", s)
    \/ In("sensor_integration", s) \/ In("sensor", s)

\* 806-810
SetLeds(c, s) ==
    IF ~In("set_leds", s) THEN c
    ELSE IF In("on", s) THEN Do(c, SetOp(<<"leds", "SPOTIFY", "state">>, "ON"))
    ELSE IF In("off", s) THEN Do(c, SetOp(<<"leds", "SPOTIFY", "state">>, "OFF"))
    ELSE c

\* 639-819, as far as it writes stats.gemini_errors and status['leds'] or
\* raises.  re.search at 686, 695, 797, 802 and 812 reads the local name re,
\* which only an `import re` executed earlier in the same call has bound
\* (720 and 751 among them).
SecGemini(c, s) ==
    IF c.exc # None THEN c
    ELSE IF ~(\/ In("gemini", s)
              \/ InExact("{U+00F0}{U+0178}{U+017D}{U+2122}{U+00EF}{U+00B8}", s)
              \/ InExact("{U+00F0}{U+0178}{U+2019}{U+00AC}", s)
              \/ InExact("{U+00F0}{U+0178}{U+201D}{U+0160}", s))
    THEN c
    ELSE LET success == \/ In("{U+00E2}{U+0153}{U+2026} step 1/3: stt success", s)
                        \/ In("{U+00E2}{U+0153}{U+2026} step 2/3: llm success", s)
                        \/ In("{U+00E2}{U+0153}{U+2026} [gemini live] step 2/3: llm success", s)
             step_failed == In("{U+00E2}{U+0152} step", s) /\ In("failed", s)
             imports == \/ In("gemini stt:", s)
                        \/ In("{U+00F0}{U+0178}{U+201D}{U+0160} [gemini stt]", s)
                        \/ In("gemini chat response:", s)
                        \/ In("{U+00E2}{U+0153}{U+2026} [gemini llm] success", s)
                        \/ In("{U+00E2}{U+0153}{U+2026} [gemini live] step 2/3: llm success", s)
             pathway_failed == In("gemini live", s) /\ In("pathway", s) /\ In("failed", s)
             tools == \/ In("{U+00F0}{U+0178}{U+201D}{U+00A7} [gemini tools]", s)
                      \/ In("gemini tools", s)
                      \/ In("{U+00F0}{U+0178}{U+201D}{U+00A7} [gemini llm] function call detected", s)
             error == In("gemini", s) /\ (In("error", s) \/ InExact("{U+00E2}{U+0152}", s))
             c1 == IF step_failed THEN Do(c, IncOp(<<"stats", "gemini_errors">>)) ELSE c
             c2 == IF pathway_failed THEN Do(c1, IncOp(<<"stats", "gemini_errors">>)) ELSE c1
             c3 == IF tools THEN SetLeds(c2, s) ELSE c2
         IN  IF success /\ ~ImportedRe(s) THEN Raise(c, "UnboundLocalError")
             ELSE IF tools /\ ~(ImportedRe(s) \/ imports) THEN Raise(c2, "UnboundLocalError")
             ELSE IF error THEN Do(c3, IncOp(<<"stats", "gemini_errors">>))
             ELSE c3

ErrorKeywords ==
    { "guru meditation error", "panic", "exception was unhandled", "integerdividebyzero",
      "assert failed", "abort()", "crash", "fatal error", "watchdog reset", "brownout",
      "stack overflow", "heap corruption" }

\* 837
IsCriticalError(s) == \E k \in ErrorKeywords : In(k, s)

\* hash(): Python compares the hashes of the two stripped messages; equal
\* strings hash equally, and the 64-bit hashes of the distinct messages of
\* this model are taken to differ
Hash(m) == m

\* error_exists without the comparison: no message is ever found in the log
NeverExists(st, s) == FALSE

\* 841
ErrorExists(st, s) ==
    \E i \in 1..Len(st.error_log) : Hash(st.error_log[i].message) = Hash(Cap(s).stripped)

\* 843-855 once the message is found novel
RecordError(c, s) ==
    DoAll(c, << [op |-> "append_error", path |-> <<>>, val |-> Cap(s).stripped],
                [op |-> "trim_errors", path |-> <<>>, val |-> None],
                [op |-> "save", path |-> <<>>, val |-> None],
                IncOp(<<"stats", "errors">>) >>)

\* 821-855
SecCritical(c, s) ==
    IF c.exc # None THEN c
    ELSE IF ~IsCriticalError(s) THEN c
    ELSE IF ErrorExists(c.st, s) THEN c
    ELSE IF ~c.time THEN Raise(c, "UnboundLocalError")
    ELSE RecordError(c, s)

BootKeywords ==
    { "esp32-s3", "chip is esp32s3", "cpu frequency", "free heap", "app cpu start",
      "main task", "nvs", "boot:", "rst:0x", "boot mode:" }

\* 871
IsBootMessage(s) ==
    /\ \E k \in BootKeywords : In(k, s)
    /\ In("starting", s) \/ In("initialized", s) \/ In("rst:", s)

\* 857-880; elapsed: more than 5 seconds have passed since last_boot_time
SecBoot(c, s, elapsed) ==
    IF c.exc # None THEN c
    ELSE IF ~IsBootMessage(s) THEN c
    ELSE IF ~c.time THEN Raise(c, "UnboundLocalError")
    ELSE IF c.st.last_boot_time = None THEN Do(c, SetOp(<<"last_boot_time">>, "t"))
    ELSE IF elapsed
    THEN Do2(c, SetOp(<<"reboot_detected">>, TRUE), SetOp(<<"last_boot_time">>, "t"))
    ELSE c

ExcludePatterns ==
    { "stack overflow", "certificate discovery", "using embedded",
      "spiffs may not be mounted", "falling back to embedded",
      "certificate directory not found" }

\* 882-894
SecErrors(c, s) ==
    IF c.exc # None THEN c
    ELSE IF (In("error", s) \/ In("failed", s)) /\ ~(\E p \in ExcludePatterns : In(p, s))
    THEN Do(c, IncOp(<<"stats", "errors">>))
    ELSE c

\* `'sensor_bus' if 'sensor bus' in line_lower else 'audio_bus'`
BusNamed(s) == IF In("sensor bus", s) THEN "sensor_bus" ELSE "audio_bus"

\* current_scanning_bus = b
SetBus(c, b) == [c EXCEPT !.bus = b, !.ops = Append(c.ops, [op |-> "bus", path |-> <<>>, val |-> b])]

\* 898-909: a scan of a bus starts
SecI2cStart(c, s) ==
    IF c.exc # None THEN c
    ELSE IF In("scanning", s) /\ (In("sensor bus", s) \/ In("audio bus", s))
    THEN Do2(SetBus(c, BusNamed(s)),
             SetOp(<<"i2c_scan", BusNamed(s), "status">>, "Scanning"),
             SetOp(<<"i2c_scan", BusNamed(s), "devices">>, <<>>))
    ELSE c

\* 921-929: the bus a device line is attributed to
FoundOnBus(c, s) ==
    IF In("audio bus", s) THEN "audio_bus"
    ELSE IF In("sensor bus", s) THEN "sensor_bus"
    ELSE IF c.st.i2c_scan.audio_bus.status = "Scanning" THEN "audio_bus"
    ELSE IF c.st.i2c_scan.sensor_bus.status = "Scanning" THEN "sensor_bus"
    ELSE IF c.bus # None THEN c.bus
    ELSE "sensor_bus"

\* the attribution without 926-929: current_scanning_bus decides when the
\* line names no bus
FoundOnCurrentBus(c, s) ==
    IF In("audio bus", s) THEN "audio_bus"
    ELSE IF In("sensor bus", s) THEN "sensor_bus"
    ELSE IF c.bus # None THEN c.bus
    ELSE "sensor_bus"

\* 915-934: a device was found
SecI2cFound(c, s) ==
    IF c.exc # None THEN c
    ELSE IF ~(In("found device at address", s) \/ In("device at address", s)) THEN c
    ELSE IF Cap(s).addr = -1 THEN c
    ELSE LET devices == c.st.i2c_scan[FoundOnBus(c, s)].devices
         IN  IF \E i \in 1..Len(devices) : devices[i] = Cap(s).addr THEN c
             ELSE Do2(c, [op |-> "append", path |-> <<"i2c_scan", FoundOnBus(c, s), "devices">>,
                          val |-> Cap(s).addr],
                         [op |-> "sort", path |-> <<"i2c_scan", FoundOnBus(c, s), "devices">>,
                          val |-> None])

\* 937-947
SecI2cTotal(c, s) ==
    IF c.exc # None THEN c
    ELSE IF /\ In("total:", s) /\ In("device", s)
            /\ In("found on", s) \/ In("sensor bus", s) \/ In("audio bus", s)
    THEN Do(c, SetOp(<<"i2c_scan", BusNamed(s), "status">>, "Complete"))
    ELSE c

\* 950-956: a scan ends
SecI2cEnd(c, s) ==
    IF c.exc # None THEN c
    ELSE IF ~In("end scan of", s) THEN c
    ELSE LET c1 == IF c.st.i2c_scan[BusNamed(s)].status = "Scanning"
                   THEN Do(c, SetOp(<<"i2c_scan", BusNamed(s), "status">>, "Complete"))
                   ELSE c
         IN  IF c1.bus = BusNamed(s) THEN SetBus(c1, None) ELSE c1

\* 959-962
SecI2cFailed(c, s) ==
    IF c.exc # None THEN c
    ELSE IF In("failed to create scan bus", s) \/ In("failed to initialize i2c bus", s)
    THEN Do(c, SetOp(<<"i2c_scan",
                       IF In("sensor bus", s) \/ In("i2c_num_0", s) THEN "sensor_bus"
                       ELSE "audio_bus",
                       "status">>, "Failed"))
    ELSE c

\* 982-1011: the LED rule
SecLed(c, s) ==
    IF c.exc # None THEN c
    ELSE IF ~(In("led[", s) /\ In("]:", s)) THEN c
    ELSE IF Cap(s).led.kind = "none" THEN c
    ELSE IF Cap(s).led.name \notin DOMAIN c.st.leds THEN c
    ELSE IF Cap(s).led.kind = "rgb"
    THEN Do(c, SetOp(<<"leds", Cap(s).led.name>>,
                     [r |-> Cap(s).led.r, g |-> Cap(s).led.g, b |-> Cap(s).led.b,
                      state |-> IF Cap(s).led.r > 0 \/ Cap(s).led.g > 0 \/ Cap(s).led.b > 0
                                THEN "ON" ELSE "OFF"]))
    ELSE Do(c, SetOp(<<"leds", Cap(s).led.name>>, LedOff))

NSections == 17

\* The k-th section of the function, in source order.
Section(k, c, s, elapsed) ==
    CASE k = 1 -> SecFirmware(c, s)
      [] k = 2 -> SecWifi(c, s)
      [] k = 3 -> SecIp(c, s)
      [] k = 4 -> SecSpotify(c, s)
      [] k = 5 -> SecAws(c, s)
      [] k = 6 -> SecWake(c, s)
      [] k = 7 -> SecSensors(c, s)
      [] k = 8 -> SecGemini(c, s)
      [] k = 9 -> SecCritical(c, s)
      [] k = 10 -> SecBoot(c, s, elapsed)
      [] k = 11 -> SecErrors(c, s)
      [] k = 12 -> SecI2cStart(c, s)
      [] k = 13 -> SecI2cFound(c, s)
      [] k = 14 -> SecI2cTotal(c, s)
      [] k = 15 -> SecI2cEnd(c, s)
      [] k = 16 -> SecI2cFailed(c, s)
      [] k = 17 -> SecLed(c, s)

RECURSIVE RunSections(_, _, _, _)
RunSections(k, c, s, elapsed) ==
    IF k > NSections THEN c
    ELSE Only({ RunSections(k + 1, d, s, elapsed) : d \in {Section(k, c, s, elapsed)} })

\* parse_log_line(line): the statements the call executes on store st, in
\* order, and the exception it ends with (None: it returns)
ParseLogLine(st, s, elapsed) ==
    IF Cap(s).stripped = "" THEN Ctx(st) ELSE RunSections(1, Ctx(st), s, elapsed)

(***************************************************************************)
(* The persisted error log (3548-3578)                                     *)
(***************************************************************************)

NoFile == [state |-> "absent", errors |-> <<>>, last_boot_time |-> None]

\* The outcomes of writing the document: written; open() fails and the file
\* is left as it was; json.dump fails after open(..., 'w') truncated the file.
DiskOutcomes == {"written", "unchanged", "truncated"}

\* save_error_log(): every exception is caught and printed
SaveErrorLog(st, file, disk) ==
    CASE disk = "written"   -> [state |-> "ok", errors |-> st.error_log,
                                last_boot_time |-> st.last_boot_time]
      [] disk = "unchanged" -> file
      [] disk = "truncated" -> [state |-> "corrupt", errors |-> <<>>, last_boot_time |-> None]

\* a start of the program that does not read the document
LoadErrorLogSkipped(st, file) == st

\* load_error_log(): the store after it
LoadErrorLog(st, file) ==
    CASE file.state = "absent"  -> st
      [] file.state = "corrupt" -> [st EXCEPT !.error_log = <<>>]
      [] file.state = "ok"      -> [st EXCEPT !.error_log = LastN(file.errors, ErrorCap),
                                              !.last_boot_time = file.last_boot_time]

\* The statements ops run in order on the store and the file of sf.
RECURSIVE RunOps(_, _, _)
RunOps(sf, ops, disk) ==
    IF ops = <<>> THEN sf
    ELSE RunOps([sf EXCEPT !.st = ApplyOp(sf.st, Head(ops)),
                           !.file = IF Head(ops).op = "save"
                                    THEN SaveErrorLog(ApplyOp(sf.st, Head(ops)), sf.file, disk)
                                    ELSE sf.file],
                Tail(ops), disk)

(***************************************************************************)
(* The recent-lines buffer status['logs']                                  *)
(***************************************************************************)

\* 1124-1128: status['logs'].append(log_entry); no limit
AppendSerialLog(st, s) ==
    [st EXCEPT !.logs = Append(@, [text |-> Cap(s).stripped, level |-> None])]

\* a buffer that drops the new entry when it is full
AppendMqttDropNewest(st, text) ==
    IF Len(st.logs) >= MqttLogCap THEN st
    ELSE [st EXCEPT !.logs = Append(@, [text |-> text, level |-> "info"])]

\* 5078-5085, 5092-5099: append, then one popleft above the cap
AppendMqttLog(st, text) ==
    LET q == Append(st.logs, [text |-> text, level |-> "info"])
    IN  [st EXCEPT !.logs = IF Len(q) > MqttLogCap THEN Tail(q) ELSE q]

\* on_mqtt_message (4974-5105): the store after a message on a topic of the
\* given kind; raises: the payload makes the handler raise before the append
OnMqttMessage(st, kind, raises) ==
    IF raises THEN st
    ELSE CASE kind = "telemetry" -> AppendMqttLog(st, "[MQTT Telemetry]")
           [] kind = "command"   -> AppendMqttLog(st, "[MQTT]")
           [] kind = "other"     -> st

\* 550-553: the delay of reset_wake, in seconds
WakeDelay == 2

\* threading.Thread(target=reset_wake).start(): the thread has not run yet.
\* cell: the closure cell of `time` stays unbound, or the call that started
\* the thread binds it at 569 while the thread runs; left: the seconds of
\* the delay that have not passed since the event
NewTimer(op) == [pc |-> "start", cell |-> IF op.val THEN "racing" ELSE "unbound",
                 left |-> WakeDelay]

IsThread(op) == op.op = "thread"

\* the threads the statements ops start
Started(ops) ==
    [i \in 1..Len(SelectSeq(ops, IsThread)) |-> NewTimer(SelectSeq(ops, IsThread)[i])]

\* serial_reader 1123-1154 for one accepted line: the entry is appended, the
\* line is classified, and whatever parse_log_line raises is swallowed (exc)
ProcessLine(st, file, s, elapsed, disk) ==
    Only({ RunOps([st |-> AppendSerialLog(st, s), file |-> file, exc |-> c.exc,
                   bus |-> c.bus, started |-> Started(c.ops)], c.ops, disk) :
             c \in {ParseLogLine(AppendSerialLog(st, s), s, elapsed)} })

(***************************************************************************)
(* The ingestion of a connected reader, line by line                       *)
(***************************************************************************)


\* The number of inputs (lines, messages) a run consumes.
MaxFeeds == 3

Ports == {"A", "B"}

\* The lines fed to the classifier in Spec.
ErrInputs ==
    { "Spotify init failed",
      "Guru Meditation Error: Core 0 panic'ed",
      "sensors: fatal error",
      "Certificate discovery failed, using embedded",
      Fam(1), Fam(ErrorCap + 1) }

\* The document a previous run of the program left behind after it was fed
\* the first k lines of the family.
FileAfter(k) ==
    [state |-> "ok", errors |-> [i \in 1..k |-> [message |-> Fam(i)]],
     last_boot_time |-> None]

\* The operation last performed, with the store and the file it started from.
Op(op, arg, exc) == [op |-> op, arg |-> arg, exc |-> exc, st |-> status, file |-> error_file]

\* The store of a process whose reader thread has opened port A.
ConnectedStatus == [InitStatus EXCEPT !.serial_connected = TRUE, !.serial_port = "A"]

Init ==
    /\ status = ConnectedStatus
    /\ error_file \in {NoFile, FileAfter(ErrorCap - 1), FileAfter(ErrorCap)}
    /\ serial_conn = [bound |-> TRUE, port |-> "A", open |-> TRUE, gen |-> 1]
    /\ current_port = "A"
    /\ serial_thread = 1
    /\ port_lock = 0
    /\ readers = <<>>
    /\ handlers = <<>>
    /\ main_pc = "load_error_log"
    /\ nfed = 0
    /\ last = [op |-> "init", arg |-> None, exc |-> None, st |-> ConnectedStatus,
               file |-> error_file]
    /\ monitor = NoMonitor
    /\ connection_state = NoConnection
    /\ error_data = None
    /\ current_scanning_bus = None
    /\ wake_timers = <<>>

\* main 5345: load_error_log(), after the reader thread was started (5331)
MainLoadErrorLog ==
    /\ main_pc = "load_error_log"
    /\ main_pc' = "serving"
    /\ status' = LoadErrorLog(status, error_file)
    /\ last' = Op("load", None, None)
    /\ UNCHANGED <<error_file, serial_conn, current_port, serial_thread, port_lock,
                   readers, handlers, nfed>>
    /\ UNCHANGED <<monitor, connection_state, error_data, current_scanning_bus, wake_timers>>

\* serial_reader 1105-1156: one accepted line
SerialLine(s, elapsed, disk) ==
    /\ nfed < MaxFeeds
    /\ \E r \in {ProcessLine(status, error_file, s, elapsed, disk)} :
           /\ status' = r.st
           /\ error_file' = r.file
           /\ last' = Op("line", s, r.exc)
           /\ current_scanning_bus' = r.bus
           /\ wake_timers' = wake_timers \o r.started
    /\ nfed' = nfed + 1
    /\ UNCHANGED <<serial_conn, current_port, serial_thread, port_lock, readers, handlers,
                   main_pc>>
    /\ UNCHANGED <<monitor, connection_state, error_data>>

\* on_mqtt_message 4974-5105
MqttMessage(kind, raises) ==
    /\ nfed < MaxFeeds
    /\ status' = OnMqttMessage(status, kind, raises)
    /\ last' = Op("mqtt", kind, IF raises THEN "Exception" ELSE None)
    /\ nfed' = nfed + 1
    /\ UNCHANGED <<error_file, serial_conn, current_port, serial_thread, port_lock,
                   readers, handlers, main_pc>>
    /\ UNCHANGED <<monitor, connection_state, error_data, current_scanning_bus, wake_timers>>

\* clearErrors() of the page (3386-3399): POST /api/errors/clear.  The
\* application registers no such route, so the request is answered 404 and
\* no handler of the module runs.
PostErrorsClear ==
    /\ main_pc = "serving"
    /\ last.op # "clear"
    /\ last' = Op("clear", None, "404")
    /\ UNCHANGED <<status, error_file, serial_conn, current_port, serial_thread, port_lock,
                   readers, handlers, main_pc, nfed>>
    /\ UNCHANGED <<monitor, connection_state, error_data, current_scanning_bus, wake_timers>>

\* The inputs of one accepted line: the line, whether more than 5 seconds
\* passed since the last boot message, and what the disk does with a write.
FeedLine(inputs) ==
    \E s \in {Line(x) : x \in inputs} :
        \E elapsed \in (IF IsBootMessage(s) THEN BOOLEAN ELSE {FALSE}) :
            \E disk \in (IF IsCriticalError(s) THEN DiskOutcomes ELSE {"written"}) :
                SerialLine(s, elapsed, disk)

Next ==
    \/ MainLoadErrorLog
    \/ FeedLine(ErrInputs)
    \/ PostErrorsClear

Spec == Init /\ [][Next]_vars

(***************************************************************************)
(* The error history: properties of Spec                                   *)
(***************************************************************************)

NoDuplicates(log) ==
    \A i, j \in 1..Len(log) : i # j => log[i].message # log[j].message

\* The line last fed has a critical keyword and its message was in the log.
WasDuplicate ==
    /\ last.op = "line"
    /\ IsCriticalError(last.arg)
    /\ ErrorExists(last.st, last.arg)

\* The line last fed has a critical keyword, its message was not in the log
\* and the call returned: lines 843-855 ran.
WasRecorded ==
    /\ last.op = "line"
    /\ IsCriticalError(last.arg)
    /\ ~ErrorExists(last.st, last.arg)
    /\ last.exc = None

\* The line has error/failure phrasing and is not on the exclusion list.
ErrorPhrasing(s) ==
    /\ In("error", s) \/ In("failed", s)
    /\ ~(\E p \in ExcludePatterns : In(p, s))

\* C3 as stated: the log holds no two records with the same message, and a
\* line whose message is already in the log leaves the log, the persisted
\* file and the error counter unchanged.
C3_DuplicateChangesNothing ==
    /\ NoDuplicates(status.error_log)
    /\ WasDuplicate =>
          /\ status.error_log = last.st.error_log
          /\ error_file = last.file
          /\ status.stats.errors = last.st.stats.errors

\* C3 amended: the log holds no two records with the same message, and a
\* line whose message is already in the log leaves the log and the persisted
\* file unchanged; the error counter grows by one exactly when the call
\* returns and the line has error/failure phrasing off the exclusion list.
C3_DuplicateAddsNoRecord ==
    /\ NoDuplicates(status.error_log)
    /\ WasDuplicate =>
          /\ status.error_log = last.st.error_log
          /\ error_file = last.file
          /\ status.stats.errors =
                last.st.stats.errors
                   + (IF last.exc = None /\ ErrorPhrasing(last.arg) THEN 1 ELSE 0)

\* A message already in the log was fed again and the counter grew.
C3_Witness ==
    /\ WasDuplicate
    /\ status.stats.errors = last.st.stats.errors + 1
    /\ Len(status.error_log) = 1

\* C4: the error log never holds more than ErrorCap records; a novel error
\* is appended at the end, and when the log was full the oldest record is
\* the one evicted.
C4_CapEvictsOldest ==
    /\ Len(status.error_log) <= ErrorCap
    /\ WasRecorded =>
          LET pre == last.st.error_log
              new == Append(pre, [message |-> Cap(last.arg).stripped])
          IN  status.error_log = IF Len(pre) = ErrorCap THEN Tail(new) ELSE new

\* A novel error was recorded while the log held ErrorCap records.
C4_Witness ==
    /\ WasRecorded
    /\ Len(last.st.error_log) = ErrorCap
    /\ Len(status.error_log) = ErrorCap

\* C5 as stated: a line with error/failure phrasing that is not on the
\* exclusion list has exactly one record in the log once it was fed.
C5_ErrorLineRecordedOnce ==
    (last.op = "line" /\ ErrorPhrasing(last.arg)) =>
        Cardinality({i \in 1..Len(status.error_log) :
                        status.error_log[i].message = Cap(last.arg).stripped}) = 1

\* C6 as stated: when parse_log_line returns after recording a novel error,
\* the persisted document holds the in-memory error log.
C6_RecordedIsFlushed ==
    WasRecorded =>
        /\ error_file.state = "ok"
        /\ error_file.errors = status.error_log

\* C7 as stated: after the clear request of the page the in-memory error
\* log and the persisted error log are empty.
C7_ClearEmptiesBoth ==
    last.op = "clear" =>
        /\ status.error_log = <<>>
        /\ error_file.errors = <<>>

(***************************************************************************)
(* The classifier, category by category: SpecClassify                      *)
(***************************************************************************)

\* The lines fed to the classifier in SpecClassify.
ClassifyInputs ==
    { "Wi-Fi connected",
      "Wi-Fi disconnected",
      "wifi disconnect reason 8",
      "IP:192.168.1.42",
      "sta ip: 10.0.0.7, mask: 255.255.255.0, gw: 10.0.0.1",
      "Connected to AWS IoT as dev1",
      "MQTT reconnect: connected to AWS IoT as dev1 (was disconnected)",
      "Spotify: cspot disabled in configuration",
      "Spotify init failed: cspot disabled in configuration",
      "Spotify init failed",
      "Spotify player playing",
      "Spotify client init",
      "sensors: stack overflow in task main",
      "Certificate discovery failed, using embedded",
      "Firmware Version: 1.2",
      "mqtt telemetry publish success",
      "Guru Meditation Error: Core 0 panic'ed",
      "{U+001B}[0;32mI (1234) wifi: IP:192.168.1.42{U+001B}[0m",
      "{U+001B}[0;32mI (5) aws: Connected to AWS IoT as dev1{U+001B}[0m",
      "IP: {U+001B}[1m192.168.1.42{U+001B}[0m" }

\* The reader has opened port A and no error log was left on disk.
InitClassify ==
    /\ status = ConnectedStatus
    /\ error_file = NoFile
    /\ serial_conn = [bound |-> TRUE, port |-> "A", open |-> TRUE, gen |-> 1]
    /\ current_port = "A"
    /\ serial_thread = 1
    /\ port_lock = 0
    /\ readers = <<>>
    /\ handlers = <<>>
    /\ main_pc = "serving"
    /\ nfed = 0
    /\ last = [op |-> "init", arg |-> None, exc |-> None, st |-> ConnectedStatus,
               file |-> NoFile]
    /\ monitor = NoMonitor
    /\ connection_state = NoConnection
    /\ error_data = None
    /\ current_scanning_bus = None
    /\ wake_timers = <<>>

NextClassify == FeedLine(ClassifyInputs)

SpecClassify == InitClassify /\ [][NextClassify]_vars

\* 325-329: the first rule of the Wi-Fi chain
TopRuleWifi(s) ==
    /\ In("wifi", s) \/ In("wi-fi", s)
    /\ In("connected", s)
    /\ ~In("failed", s) /\ ~In("fail", s)

\* 356-365: the first rule of the Spotify chain
TopRuleSpotify(s) ==
    In("spotify", s) /\ In("cspot", s) /\ In("disabled", s) /\ In("configuration", s)

\* 503-506: the first rule of the AWS chain
TopRuleAws(s) ==
    /\ In("aws", s) \/ In("mqtt", s) \/ In("somnus", s)
    /\ In("connected to aws iot as", s)

\* A lower rule of the same chain also matches the line.
LowerRuleAlsoMatches(s) ==
    \/ TopRuleWifi(s) /\ (In("disconnect", s) \/ In("disconnected", s))
    \/ TopRuleSpotify(s) /\ (In("failed", s) \/ In("error", s))
    \/ TopRuleAws(s) /\ In("disconnected", s)

C13_CategoriesIndependent ==
    last.op = "line" =>
        /\ last.exc = None
        /\ ErrorPhrasing(last.arg) => status.stats.errors > last.st.stats.errors

\* C14 as stated: a line that holds a pattern of the exclusion list leaves
\* the error counter and the error log as they were.
C14_ExcludedNeverCounted ==
    (last.op = "line" /\ \E p \in ExcludePatterns : In(p, last.arg)) =>
        /\ status.stats.errors = last.st.stats.errors
        /\ status.error_log = last.st.error_log

IsSpotifyInitFailed == last.op = "line" /\ last.arg.text = "Spotify init failed"

C17_DisabledSticksUntilCspotEvent ==
    (last.op = "line" /\ last.st.spotify = "cspot Disabled") =>
        \/ SpotifyCspotTaken(last.arg) /\ In("spotify", last.arg)
        \/ /\ status.spotify = "cspot Disabled"
           /\ status.spotify_detail = last.st.spotify_detail

\* From 'cspot Disabled' the old-client line "Spotify client init" was fed
\* and the status stays.
C17_Witness ==
    /\ last.op = "line"
    /\ last.st.spotify = "cspot Disabled"
    /\ last.arg.text = "Spotify client init"
    /\ status.spotify = "cspot Disabled"

\* The line with its ANSI escape sequences removed, for the lines fed here.
AnsiCleanTab == [x \in ClassifyInputs |-> Str(StripAnsi(Chars(x)))]

HasAnsi(s) == AnsiCleanTab[s.text] # s.text

\* The store without the recent-lines buffer, which holds the text itself.
Updates(st) == [st EXCEPT !.logs = <<>>]

\* C21 as stated: the store after a line equals the store the same line
\* with its ANSI escape sequences removed would have left, wherever in the
\* line the sequences are.
C21_AnsiIndependent ==
    last.op = "line" =>
        \E r \in {ProcessLine(last.st, last.file, Line(AnsiCleanTab[last.arg.text]), FALSE,
                              "written")} :
            /\ Updates(r.st) = Updates(status)
            /\ r.exc = last.exc

(***************************************************************************)
(* The recent-lines buffer under serial lines and MQTT messages: SpecLogs  *)
(***************************************************************************)

MqttKinds == {"telemetry", "command", "other"}

\* The lines fed to the reader in SpecLogs.
LogInputs == {"hello", "Wi-Fi connected"}

\* The buffer after one MQTT command message and n - 1 lines "hello".
FilledLogs(n) ==
    [i \in 1..n |-> IF i = 1 THEN [text |-> "[MQTT]", level |-> "info"]
                    ELSE [text |-> "hello", level |-> None]]

InitLogs ==
    /\ \E n \in {MqttLogCap - 2, MqttLogCap - 1, MqttLogCap} :
          /\ status = [ConnectedStatus EXCEPT !.logs = FilledLogs(n)]
          /\ last = [op |-> "init", arg |-> None, exc |-> None,
                     st |-> [ConnectedStatus EXCEPT !.logs = FilledLogs(n)], file |-> NoFile]
    /\ error_file = NoFile
    /\ serial_conn = [bound |-> TRUE, port |-> "A", open |-> TRUE, gen |-> 1]
    /\ current_port = "A"
    /\ serial_thread = 1
    /\ port_lock = 0
    /\ readers = <<>>
    /\ handlers = <<>>
    /\ main_pc = "serving"
    /\ nfed = 0
    /\ monitor = NoMonitor
    /\ connection_state = NoConnection
    /\ error_data = None
    /\ current_scanning_bus = None
    /\ wake_timers = <<>>

FeedMqtt == \E kind \in MqttKinds : \E raises \in BOOLEAN : MqttMessage(kind, raises)

NextLogs ==
    \/ FeedLine(LogInputs)
    \/ FeedMqtt

SpecLogs == InitLogs /\ [][NextLogs]_vars

\* The handler appended an entry: a telemetry or command message it did not
\* raise on.
MqttAppended ==
    /\ last.op = "mqtt"
    /\ last.arg \in {"telemetry", "command"}
    /\ last.exc = None

MaxRequests == 3

\* The number of lines the readers of a run read.
MaxReads == 2

\* The number of connections the readers of a run open.
MaxOpens == 2

\* The n-th line the device sends.
DeviceLine(n) == IF n % 2 = 1 THEN "hello" ELSE "Wi-Fi connected"

\* The local names line and text of a reader that holds no line.
NoLine == [port |-> None, gen |-> 0, n |-> 0, text |-> None]

\* threading.Thread(target=serial_reader, args=(port,)).start()
NewReader(port) == [pc |-> "init", initial_port |-> port, port |-> None, line |-> NoLine]

\* main 5325-5339: a port was found and the reader thread started, or no
\* port was found and no thread exists
InitPort ==
    /\ \/ /\ current_port = "A"
          /\ readers = <<NewReader("A")>>
          /\ serial_thread = 1
       \/ /\ current_port = None
          /\ readers = <<>>
          /\ serial_thread = 0
    /\ status = InitStatus
    /\ error_file = NoFile
    /\ serial_conn = [bound |-> FALSE, port |-> None, open |-> FALSE, gen |-> 0]
    /\ port_lock = 0
    /\ handlers = <<>>
    /\ main_pc = "serving"
    /\ nfed = 0
    /\ last = [op |-> "init", arg |-> None, exc |-> None, st |-> InitStatus, file |-> NoFile]
    /\ monitor = NoMonitor
    /\ connection_state = NoConnection
    /\ error_data = None
    /\ current_scanning_bus = None
    /\ wake_timers = <<>>

\* global running: True from the module's start (160) until main clears it
\* on KeyboardInterrupt (5370)
running == main_pc \in {"load_error_log", "serving"}

ReaderAt(r, pc) == r \in DOMAIN readers /\ readers[r].pc = pc

HandlerAt(h, pc) == h \in DOMAIN handlers /\ handlers[h].pc = pc

\* a request POST /api/port {port: p} arrives (4269-4273)
PostPort(p) ==
    /\ main_pc = "serving"
    /\ Len(handlers) < MaxRequests
    /\ handlers' = Append(handlers, [pc |-> "lock", new_port |-> p])
    /\ UNCHANGED <<status, error_file, serial_conn, current_port, serial_thread, port_lock,
                   readers, main_pc, nfed, last>>
    /\ UNCHANGED <<monitor, connection_state, error_data, current_scanning_bus, wake_timers>>

\* 4276-4281: port_lock is taken and the open connection closed
SetPortClose(h) ==
    /\ HandlerAt(h, "lock")
    /\ port_lock = 0
    /\ port_lock' = h
    /\ serial_conn' = IF serial_conn.bound THEN [serial_conn EXCEPT !.open = FALSE]
                      ELSE serial_conn
    /\ handlers' = [handlers EXCEPT ![h].pc = "set"]
    /\ UNCHANGED <<status, error_file, current_port, serial_thread, readers, main_pc, nfed,
                   last>>
    /\ UNCHANGED <<monitor, connection_state, error_data, current_scanning_bus, wake_timers>>

\* 4283-4289: the port is set, the lock released, and the handler sleeps
SetPortUpdate(h) ==
    /\ HandlerAt(h, "set")
    /\ port_lock = h
    /\ current_port' = handlers[h].new_port
    /\ status' = [status EXCEPT !.serial_connected = FALSE,
                                !.serial_port = handlers[h].new_port]
    /\ port_lock' = 0
    /\ handlers' = [handlers EXCEPT ![h].pc = "check"]
    /\ UNCHANGED <<error_file, serial_conn, serial_thread, readers, main_pc, nfed, last>>
    /\ UNCHANGED <<monitor, connection_state, error_data, current_scanning_bus, wake_timers>>

\* 4293: `if not serial_thread or not serial_thread.is_alive()`; a reader
\* thread, once started, stays alive, for running is never cleared while
\* the application serves
SetPortCheck(h) ==
    /\ HandlerAt(h, "check")
    /\ handlers' = [handlers EXCEPT ![h] = IF serial_thread = 0
                                           THEN [@ EXCEPT !.pc = "start"]
                                           ELSE [pc |-> "done", new_port |-> None]]
    /\ UNCHANGED <<status, error_file, serial_conn, current_port, serial_thread, port_lock,
                   readers, main_pc, nfed, last>>
    /\ UNCHANGED <<monitor, connection_state, error_data, current_scanning_bus, wake_timers>>

\* 4294-4298
SetPortStart(h) ==
    /\ HandlerAt(h, "start")
    /\ readers' = Append(readers, NewReader(handlers[h].new_port))
    /\ serial_thread' = Len(readers) + 1
    /\ handlers' = [handlers EXCEPT ![h] = [pc |-> "done", new_port |-> None]]
    /\ UNCHANGED <<status, error_file, serial_conn, current_port, port_lock, main_pc, nfed,
                   last>>
    /\ UNCHANGED <<monitor, connection_state, error_data, current_scanning_bus, wake_timers>>

\* 1029-1033
ReaderInit(r) ==
    /\ ReaderAt(r, "init")
    /\ port_lock = 0
    /\ current_port' = IF current_port = None THEN readers[r].initial_port ELSE current_port
    /\ status' = [status EXCEPT !.serial_port = current_port', !.serial_connected = FALSE]
    /\ readers' = [readers EXCEPT ![r].pc = "top"]
    /\ UNCHANGED <<error_file, serial_conn, serial_thread, port_lock, handlers, main_pc, nfed,
                   last>>
    /\ UNCHANGED <<monitor, connection_state, error_data, current_scanning_bus, wake_timers>>

\* 1039, 1042-1043; current_port is a port from the first reader's start on
ReaderGetPort(r) ==
    /\ ReaderAt(r, "top")
    /\ running => port_lock = 0
    /\ readers' = IF running
                  THEN [readers EXCEPT ![r].port = current_port, ![r].pc = "close_old"]
                  ELSE [readers EXCEPT ![r].pc = "cleanup"]
    /\ UNCHANGED <<status, error_file, serial_conn, current_port, serial_thread, port_lock,
                   handlers, main_pc, nfed, last>>
    /\ UNCHANGED <<monitor, connection_state, error_data, current_scanning_bus, wake_timers>>

\* 1059-1064
ReaderCloseOld(r) ==
    /\ ReaderAt(r, "close_old")
    /\ serial_conn' = IF serial_conn.bound /\ serial_conn.open
                      THEN [serial_conn EXCEPT !.open = FALSE, !.bound = FALSE]
                      ELSE serial_conn
    /\ readers' = [readers EXCEPT ![r].pc = "open"]
    /\ UNCHANGED <<status, error_file, current_port, serial_thread, port_lock, handlers,
                   main_pc, nfed, last>>
    /\ UNCHANGED <<monitor, connection_state, error_data, current_scanning_bus, wake_timers>>

\* 1067-1095: the port is opened for exclusive access, or it does not exist
\* or cannot be opened and the reader retries after 3 seconds
ReaderOpen(r, ok) ==
    /\ ReaderAt(r, "open")
    /\ ok => /\ serial_conn.gen < MaxOpens
             /\ ~(serial_conn.bound /\ serial_conn.open /\ serial_conn.port = readers[r].port)
    /\ IF ok
       THEN /\ serial_conn' = [bound |-> TRUE, port |-> readers[r].port, open |-> TRUE,
                               gen |-> serial_conn.gen + 1]
            /\ status' = [status EXCEPT !.serial_connected = TRUE,
                                        !.serial_port = readers[r].port]
            /\ readers' = [readers EXCEPT ![r].pc = "loop"]
       ELSE /\ status' = [status EXCEPT !.serial_connected = FALSE]
            /\ readers' = [readers EXCEPT ![r].pc = "top"]
            /\ UNCHANGED serial_conn
    /\ UNCHANGED <<error_file, current_port, serial_thread, port_lock, handlers, main_pc, nfed,
                   last>>
    /\ UNCHANGED <<monitor, connection_state, error_data, current_scanning_bus, wake_timers>>

\* the read loop without the test of `running`: `while serial_conn and
\* serial_conn.is_open`
ReaderLoopIgnoresStop(r) ==
    /\ ReaderAt(r, "loop")
    /\ readers' = [readers EXCEPT ![r].pc = IF serial_conn.bound /\ serial_conn.open
                                            THEN "check" ELSE "close"]
    /\ UNCHANGED <<status, error_file, serial_conn, current_port, serial_thread, port_lock,
                   handlers, main_pc, nfed, last>>
    /\ UNCHANGED <<monitor, connection_state, error_data, current_scanning_bus, wake_timers>>

\* 1098: `while running and serial_conn and serial_conn.is_open`
ReaderLoop(r) ==
    /\ ReaderAt(r, "loop")
    /\ readers' = [readers EXCEPT ![r].pc = IF running /\ serial_conn.bound /\ serial_conn.open
                                            THEN "check" ELSE "close"]
    /\ UNCHANGED <<status, error_file, serial_conn, current_port, serial_thread, port_lock,
                   handlers, main_pc, nfed, last>>
    /\ UNCHANGED <<monitor, connection_state, error_data, current_scanning_bus, wake_timers>>

\* 1100-1103
ReaderCheckPort(r) ==
    /\ ReaderAt(r, "check")
    /\ port_lock = 0
    /\ readers' = [readers EXCEPT ![r].pc = IF current_port # readers[r].port
                                            THEN "close" ELSE "read"]
    /\ UNCHANGED <<status, error_file, serial_conn, current_port, serial_thread, port_lock,
                   handlers, main_pc, nfed, last>>
    /\ UNCHANGED <<monitor, connection_state, error_data, current_scanning_bus, wake_timers>>

\* 1106-1107 with 1155-1164: a line of the connection serial_conn names is
\* read (data); nothing waits; the connection is closed (SerialException);
\* the name is bound to None (AttributeError)
ReaderRead(r, data) ==
    /\ ReaderAt(r, "read")
    /\ IF ~serial_conn.bound
       THEN /\ readers' = [readers EXCEPT ![r].pc = "loop"]
            /\ UNCHANGED <<status, nfed>>
       ELSE IF ~serial_conn.open
       THEN /\ status' = [status EXCEPT !.serial_connected = FALSE]
            /\ readers' = [readers EXCEPT ![r].pc = "close"]
            /\ UNCHANGED nfed
       ELSE IF data /\ nfed < MaxReads
       THEN /\ readers' = [readers EXCEPT ![r].pc = "process",
                                          ![r].line = [port |-> serial_conn.port,
                                                       gen |-> serial_conn.gen,
                                                       n |-> nfed + 1,
                                                       text |-> DeviceLine(nfed + 1)]]
            /\ nfed' = nfed + 1
            /\ UNCHANGED status
       ELSE /\ readers' = [readers EXCEPT ![r].pc = "loop"]
            /\ UNCHANGED <<status, nfed>>
    /\ UNCHANGED <<error_file, serial_conn, current_port, serial_thread, port_lock, handlers,
                   main_pc, last>>
    /\ UNCHANGED <<monitor, connection_state, error_data, current_scanning_bus, wake_timers>>

\* 1123-1154: the line read is appended and classified
ReaderProcess(r) ==
    /\ ReaderAt(r, "process")
    /\ \E p \in {ProcessLine(status, error_file, Line(readers[r].line.text), FALSE,
                             "written")} :
          /\ status' = p.st
          /\ error_file' = p.file
          /\ current_scanning_bus' = p.bus
          /\ wake_timers' = wake_timers \o p.started
    /\ last' = [op |-> "line",
                arg |-> [port |-> readers[r].line.port, gen |-> readers[r].line.gen,
                         n |-> readers[r].line.n,
                         opened_port |-> serial_conn.port, opened_gen |-> serial_conn.gen,
                         current_port |-> current_port],
                exc |-> None,
                st |-> [status EXCEPT !.logs = <<>>], file |-> NoFile]
    /\ readers' = [readers EXCEPT ![r].pc = "loop", ![r].line = NoLine]
    /\ UNCHANGED <<serial_conn, current_port, serial_thread, port_lock, handlers, main_pc,
                   nfed>>
    /\ UNCHANGED <<monitor, connection_state, error_data>>

\* 1167-1172
ReaderClose(r) ==
    /\ ReaderAt(r, "close")
    /\ port_lock = 0
    /\ serial_conn' = IF serial_conn.bound THEN [serial_conn EXCEPT !.open = FALSE]
                      ELSE serial_conn
    /\ status' = [status EXCEPT !.serial_connected = FALSE, !.serial_port = current_port]
    /\ readers' = [readers EXCEPT ![r].pc = "top"]
    /\ UNCHANGED <<error_file, current_port, serial_thread, port_lock, handlers, main_pc, nfed,
                   last>>
    /\ UNCHANGED <<monitor, connection_state, error_data, current_scanning_bus, wake_timers>>

NextPort ==
    \/ \E p \in Ports : PostPort(p)
    \/ \E h \in DOMAIN handlers : SetPortClose(h)
    \/ \E h \in DOMAIN handlers : SetPortUpdate(h)
    \/ \E h \in DOMAIN handlers : SetPortCheck(h)
    \/ \E h \in DOMAIN handlers : SetPortStart(h)
    \/ \E r \in DOMAIN readers : ReaderInit(r)
    \/ \E r \in DOMAIN readers : ReaderGetPort(r)
    \/ \E r \in DOMAIN readers : ReaderCloseOld(r)
    \/ \E r \in DOMAIN readers : \E ok \in BOOLEAN : ReaderOpen(r, ok)
    \/ \E r \in DOMAIN readers : ReaderLoop(r)
    \/ \E r \in DOMAIN readers : ReaderCheckPort(r)
    \/ \E r \in DOMAIN readers : \E data \in BOOLEAN : ReaderRead(r, data)
    \/ \E r \in DOMAIN readers : ReaderProcess(r)
    \/ \E r \in DOMAIN readers : ReaderClose(r)

SpecPort == InitPort /\ [][NextPort]_vars

\* serial_reader threads that were started: each stays in `while running`
AliveReaders == DOMAIN readers

\* C1 as stated: at most one serial_reader loop is alive at any moment.
C1_AtMostOneReader == Cardinality(AliveReaders) <= 1

\* C2 as stated: no line read from a port that is no longer the selected
\* one is appended and classified after a connection to another port was
\* opened later than the connection the line was read from.
C2_NoOldLineAfterNewOpen ==
    last.op = "line" =>
        ~ /\ last.arg.port # last.arg.current_port
          /\ last.arg.opened_gen > last.arg.gen
          /\ last.arg.opened_port # last.arg.port

\* C2 with a single reader thread
C2_SingleReader == Len(readers) = 1 => C2_NoOldLineAfterNewOpen

\* C11 as stated: every step that changes the status store is a step of a
\* serial_reader thread; the request handlers never write to it.
C11_OnlyReaderWrites ==
    [][status' # status => \E r \in DOMAIN readers : readers'[r] # readers[r]]_vars

\* api_set_port returns in this step: 4300-4301, the only return that
\* follows the switch, answers {'success': True, 'message': 'Switched to ...'}
ReturnsSuccess(h) == handlers[h].pc # "done" /\ handlers'[h].pc = "done"

\* C24 as stated: POST /api/port answers success only when the port it
\* names has been opened: at the return a connection to that port is open
\* and the status says connected.
C24_SuccessOnlyWhenOpened ==
    [][\A h \in DOMAIN handlers :
           ReturnsSuccess(h) =>
               /\ serial_conn.bound /\ serial_conn.open
               /\ serial_conn.port = handlers[h].new_port
               /\ status.serial_connected]_vars

\* The texts of the recent-lines buffer, oldest first.
BufferTexts == [i \in 1..Len(status.logs) |-> status.logs[i].text]

\* The lines read so far that no reader still holds, in the order of their
\* readline().
LinesHandedOver ==
    SelectSeq([n \in 1..nfed |-> n],
              LAMBDA n : \A r \in DOMAIN readers : readers[r].line.n # n)

\* C31 as stated: every accepted line is appended to the recent-lines buffer
\* and classified exactly once, in arrival order: the buffer holds the lines
\* in the order in which they were read, and the line classified last is the
\* one appended last.
C31_BufferInReadOrder ==
    /\ \A i \in 1..Len(status.logs) : status.logs[i].text = DeviceLine(i)
    /\ last.op = "line" => last.arg.n = Len(status.logs)

\* C31 with a single reader thread: the buffer is the sequence of the lines
\* the reader has handed over.
C31_SingleReader ==
    Len(readers) = 1 =>
        /\ C31_BufferInReadOrder
        /\ BufferTexts = [i \in 1..Len(LinesHandedOver) |-> DeviceLine(LinesHandedOver[i])]

\* status['serial_connected'] is true only while a connection is open
ConnectedMeansOpen == status.serial_connected => (serial_conn.bound /\ serial_conn.open)

\* status['serial_port'] names the port of the connection
PortNamesConnection == status.serial_connected => status.serial_port = serial_conn.port

\* the connection is to the selected port
ConnectionIsSelected == status.serial_connected => serial_conn.port = current_port

\* C34 as stated: if status['serial_connected'] is true then an open
\* connection exists and status['serial_port'] names the port of that open
\* connection, which is the currently selected port.
C34_ConnectivityConsistent ==
    /\ ConnectedMeansOpen
    /\ PortNamesConnection
    /\ ConnectionIsSelected

(***************************************************************************)
(* The poll surface beside the classifier, statement by statement:         *)
(* SpecSnap                                                                *)
(***************************************************************************)

\* The number of GET /api/status requests of a run.
MaxPolls == 1

\* The lines fed to the reader in SpecSnap.
SnapInputs ==
    { "Connected to AWS IoT as dev1", "IP:192.168.1.42", "sensors: fatal error", "hello" }

\* The values status.copy() copies: the immutable objects the keys of the
\* top level name.
Top(st) ==
    [ wifi |-> st.wifi, wifi_ip |-> st.wifi_ip,
      spotify |-> st.spotify, spotify_detail |-> st.spotify_detail,
      aws |-> st.aws, aws_device_id |-> st.aws_device_id ]

\* The document jsonify writes from the copied top level, the copied log
\* buffer and the objects status['stats'] and status['error_log'] name.
Response(top, logs, stats, error_log) ==
    [top |-> top, logs |-> logs, stats |-> stats, error_log |-> error_log]

\* The document of a store read at one instant.
SnapshotOf(st) == Response(Top(st), st.logs, st.stats, st.error_log)

NoResponse == [top |-> None]

\* The reader thread between two lines.
IdleReader == [pc |-> "read", ops |-> <<>>, pre |-> None]

InitSnap ==
    /\ \E f \in {NoFile, FileAfter(ErrorCap)} :
          /\ error_file = f
          /\ status = [ConnectedStatus EXCEPT !.error_log = f.errors]
          /\ last = [op |-> "init", arg |-> None, exc |-> None,
                     st |-> [ConnectedStatus EXCEPT !.error_log = f.errors], file |-> f]
    /\ serial_conn = [bound |-> TRUE, port |-> "A", open |-> TRUE, gen |-> 1]
    /\ current_port = "A"
    /\ serial_thread = 1
    /\ port_lock = 0
    /\ readers = <<IdleReader>>
    /\ handlers = <<>>
    /\ main_pc = "serving"
    /\ nfed = 0
    /\ monitor = NoMonitor
    /\ connection_state = NoConnection
    /\ error_data = None
    /\ current_scanning_bus = None
    /\ wake_timers = <<>>

\* 1105-1130: a line is read and appended to the buffer, and parse_log_line
\* is entered; ops are the statements the call will execute
SnapReadLine(s) ==
    /\ nfed < MaxFeeds
    /\ readers[1].pc = "read"
    /\ status' = AppendSerialLog(status, s)
    /\ \E c \in {ParseLogLine(AppendSerialLog(status, s), s, FALSE)} :
          /\ readers' = <<IF c.ops = <<>> THEN IdleReader
                          ELSE [pc |-> "parse", ops |-> c.ops, pre |-> Top(status)]>>
          /\ last' = Op("line", s, c.exc)
    /\ nfed' = nfed + 1
    /\ UNCHANGED <<error_file, serial_conn, current_port, serial_thread, port_lock, handlers,
                   main_pc>>
    /\ UNCHANGED <<monitor, connection_state, error_data, current_scanning_bus, wake_timers>>

\* The list object status['error_log'] names is replaced at 851 when it
\* holds more than ErrorCap records: a handler that copied the name before
\* keeps the list as it was.
Rebinds(op) == op.op = "trim_errors" /\ Len(status.error_log) > ErrorCap

\* one statement of parse_log_line
SnapParseStep ==
    /\ readers[1].pc = "parse"
    /\ \E r \in {RunOps([st |-> status, file |-> error_file], <<Head(readers[1].ops)>>,
                        "written")} :
          /\ status' = r.st
          /\ error_file' = r.file
    /\ current_scanning_bus' = IF Head(readers[1].ops).op = "bus" THEN Head(readers[1].ops).val
                               ELSE current_scanning_bus
    /\ wake_timers' = wake_timers \o Started(<<Head(readers[1].ops)>>)
    /\ readers' = <<IF Len(readers[1].ops) = 1 THEN IdleReader
                    ELSE [readers[1] EXCEPT !.ops = Tail(@)]>>
    /\ handlers' = [h \in DOMAIN handlers |->
                       IF /\ Rebinds(Head(readers[1].ops))
                          /\ handlers[h].pc \in {"logs", "jsonify"}
                          /\ handlers[h].error_log.live
                       THEN [handlers[h] EXCEPT
                                !.error_log = [live |-> FALSE, val |-> status.error_log]]
                       ELSE handlers[h]]
    /\ UNCHANGED <<serial_conn, current_port, serial_thread, port_lock, main_pc, nfed, last>>
    /\ UNCHANGED <<monitor, connection_state, error_data>>

\* a request GET /api/status arrives
GetStatus ==
    /\ Len(handlers) < MaxPolls
    /\ handlers' = Append(handlers,
                      [pc |-> "copy", top |-> None, logs |-> <<>>,
                       error_log |-> [live |-> TRUE, val |-> <<>>],
                       taken |-> NoResponse, pre |-> None, post |-> None,
                       response |-> NoResponse])
    /\ UNCHANGED <<status, error_file, serial_conn, current_port, serial_thread, port_lock,
                   readers, main_pc, nfed, last>>
    /\ UNCHANGED <<monitor, connection_state, error_data, current_scanning_bus, wake_timers>>

\* 3584: status_copy = status.copy().  taken: the document of the store at
\* this instant; pre, post: the top level before and after the line the
\* reader is at
StatusCopy(h) ==
    /\ HandlerAt(h, "copy")
    /\ handlers' = [handlers EXCEPT ![h] =
          [@ EXCEPT !.pc = "logs",
                    !.top = Top(status),
                    !.taken = SnapshotOf(status),
                    !.pre = IF readers[1].pc = "parse" THEN readers[1].pre ELSE Top(status),
                    !.post = Top(ApplyAll(status, readers[1].ops))]]
    /\ UNCHANGED <<status, error_file, serial_conn, current_port, serial_thread, port_lock,
                   readers, main_pc, nfed, last>>
    /\ UNCHANGED <<monitor, connection_state, error_data, current_scanning_bus, wake_timers>>

\* 3585-3599
StatusLogs(h) ==
    /\ HandlerAt(h, "logs")
    /\ handlers' = [handlers EXCEPT ![h].pc = "jsonify", ![h].logs = status.logs]
    /\ UNCHANGED <<status, error_file, serial_conn, current_port, serial_thread, port_lock,
                   readers, main_pc, nfed, last>>
    /\ UNCHANGED <<monitor, connection_state, error_data, current_scanning_bus, wake_timers>>

\* 3601: jsonify(status_copy)
StatusJsonify(h) ==
    /\ HandlerAt(h, "jsonify")
    /\ handlers' = [handlers EXCEPT ![h] =
          [@ EXCEPT !.pc = "done",
                    !.response =
                        Response(handlers[h].top, handlers[h].logs, status.stats,
                                 IF handlers[h].error_log.live THEN status.error_log
                                 ELSE handlers[h].error_log.val)]]
    /\ UNCHANGED <<status, error_file, serial_conn, current_port, serial_thread, port_lock,
                   readers, main_pc, nfed, last>>
    /\ UNCHANGED <<monitor, connection_state, error_data, current_scanning_bus, wake_timers>>

NextSnap ==
    \/ \E s \in {Line(x) : x \in SnapInputs} : SnapReadLine(s)
    \/ SnapParseStep
    \/ GetStatus
    \/ \E h \in DOMAIN handlers : StatusCopy(h)
    \/ \E h \in DOMAIN handlers : StatusLogs(h)
    \/ \E h \in DOMAIN handlers : StatusJsonify(h)

SpecSnap == InitSnap /\ [][NextSnap]_vars

\* C9 as stated: the document a request returns is the document of the
\* store at the instant the snapshot was taken.
C9_SnapshotIsDeepCopy ==
    \A h \in DOMAIN handlers :
        handlers[h].pc = "done" => handlers[h].response = handlers[h].taken

\* C10 as stated: the top level a request copies shows all of the updates
\* of the line the reader is at, or none of them.
C10_LineUpdateAtomic ==
    \A h \in DOMAIN handlers :
        handlers[h].pc = "done" =>
            handlers[h].response.top \in {handlers[h].pre, handlers[h].post}

(***************************************************************************)
(* The read loop of a connected reader, readline by readline: SpecRead     *)
(***************************************************************************)

\* What in_waiting or readline() raises when the read fails.
ReadErrors == {"SerialException", "OSError"}

\* 1153: `except Exception` catches whatever is raised between 1108 and
\* 1152, the exceptions of parse_log_line among them
CaughtAt1153(exc) == TRUE

InitRead ==
    /\ status = ConnectedStatus
    /\ error_file = NoFile
    /\ serial_conn = [bound |-> TRUE, port |-> "A", open |-> TRUE, gen |-> 1]
    /\ current_port = "A"
    /\ serial_thread = 1
    /\ port_lock = 0
    /\ readers = <<[pc |-> "loop", initial_port |-> "A", port |-> "A", line |-> NoLine]>>
    /\ handlers = <<>>
    /\ main_pc = "serving"
    /\ nfed = 0
    /\ last = [op |-> "init", arg |-> None, exc |-> None, st |-> ConnectedStatus,
               file |-> NoFile]
    /\ monitor = NoMonitor
    /\ connection_state = NoConnection
    /\ error_data = None
    /\ current_scanning_bus = None
    /\ wake_timers = <<>>

\* 1105-1156: readline() returns the bytes RawTab[n]
ReaderReadLine(r, n) ==
    /\ ReaderAt(r, "loop")
    /\ nfed < MaxFeeds
    /\ \E rd \in {ReadTab[n]} :
          IF rd.why = "accepted"
          THEN \E p \in {ProcessLine(status, error_file, Line(rd.text), FALSE, "written")} :
                  /\ status' = p.st
                  /\ error_file' = p.file
                  /\ current_scanning_bus' = p.bus
                  /\ wake_timers' = wake_timers \o p.started
                  /\ last' = Op("read", [raw |-> n, why |-> rd.why, text |-> rd.text], p.exc)
                  /\ readers' = [readers EXCEPT
                                    ![r].pc = IF p.exc = None \/ CaughtAt1153(p.exc)
                                              THEN "loop" ELSE "dead"]
          ELSE /\ last' = Op("read", [raw |-> n, why |-> rd.why, text |-> rd.text], None)
               /\ UNCHANGED <<status, error_file, readers, current_scanning_bus, wake_timers>>
    /\ nfed' = nfed + 1
    /\ UNCHANGED <<serial_conn, current_port, serial_thread, port_lock, handlers, main_pc>>
    /\ UNCHANGED <<monitor, connection_state, error_data>>

\* 1106-1107 raise.  SerialException: 1157-1160, then 1167-1172 and back to
\* the top of `while running`; any other exception: 1161-1164, and the read
\* loop goes on
ReaderReadError(r, e) ==
    /\ ReaderAt(r, "loop")
    /\ nfed < MaxFeeds
    /\ IF e = "SerialException"
       THEN /\ status' = [status EXCEPT !.serial_connected = FALSE,
                                        !.serial_port = current_port]
            /\ serial_conn' = [serial_conn EXCEPT !.open = FALSE]
            /\ readers' = [readers EXCEPT ![r].pc = "reconnect"]
       ELSE UNCHANGED <<status, serial_conn, readers>>
    /\ last' = Op("read_error", e, e)
    /\ nfed' = nfed + 1
    /\ UNCHANGED <<error_file, current_port, serial_thread, port_lock, handlers, main_pc>>
    /\ UNCHANGED <<monitor, connection_state, error_data, current_scanning_bus, wake_timers>>

\* 1042-1076: the port is opened again
ReaderReconnect(r) ==
    /\ ReaderAt(r, "reconnect")
    /\ serial_conn' = [bound |-> TRUE, port |-> readers[r].port, open |-> TRUE,
                       gen |-> serial_conn.gen + 1]
    /\ status' = [status EXCEPT !.serial_connected = TRUE, !.serial_port = readers[r].port]
    /\ readers' = [readers EXCEPT ![r].pc = "loop"]
    /\ last' = Op("reconnect", None, None)
    /\ UNCHANGED <<error_file, current_port, serial_thread, port_lock, handlers, main_pc, nfed>>
    /\ UNCHANGED <<monitor, connection_state, error_data, current_scanning_bus, wake_timers>>

NextRead ==
    \/ \E r \in DOMAIN readers : \E n \in DOMAIN RawTab : ReaderReadLine(r, n)
    \/ \E r \in DOMAIN readers : \E e \in ReadErrors : ReaderReadError(r, e)
    \/ \E r \in DOMAIN readers : ReaderReconnect(r)

SpecRead == InitRead /\ [][NextRead]_vars

\* The text of the bytes last read, decoded with errors='ignore' and with
\* errors='replace', and stripped.
IgnoredTab == [n \in DOMAIN RawTab |-> Strip(DecodeWith(RawTab[n], ""))]

ReplacedTab == [n \in DOMAIN RawTab |-> Strip(DecodeWith(RawTab[n], Replacement))]

\* The line last read was appended to the buffer and classified.
WasProcessed ==
    /\ last.op = "read"
    /\ last.arg.why = "accepted"
    /\ status.logs = Append(last.st.logs, [text |-> last.arg.text, level |-> None])

\* The line last read left the store and the persisted log as they were.
WasDropped ==
    /\ last.op = "read"
    /\ last.arg.why # "accepted"
    /\ status = last.st
    /\ error_file = last.file

\* C18: a line of more than MaxLineLen bytes is dropped whole: nothing is
\* appended to the buffer, nothing is classified, and no field or counter
\* of the store changes.
C18_TooLongDroppedWhole ==
    (last.op = "read" /\ Len(RawTab[last.arg.raw]) > MaxLineLen) =>
        /\ last.arg.why = "too_long"
        /\ WasDropped

\* A line of MaxLineLen + 1 bytes was read after another line had been
\* accepted, and the store is as it was.
C18_Witness ==
    /\ last.op = "read"
    /\ last.arg.raw = "ab1001"
    /\ Len(RawTab[last.arg.raw]) = MaxLineLen + 1
    /\ Len(last.st.logs) > 0
    /\ status = last.st

\* One character makes up more than 80% of the whole text t, which is
\* longer than 100 characters.
Over80Percent(t) == Len(t) > RepeatMinLen /\ 5 * MaxCount(t) > 4 * Len(t)

RepetitiveTab == [n \in DOMAIN RawTab |-> Over80Percent(IgnoredTab[n])]

\* C19 as stated: among the lines of at most MaxLineLen bytes, the
\* heuristic drops exactly the texts longer than 100 characters in which
\* one character makes up more than 80% of the whole text.
C19_RepeatedCharDropped ==
    (last.op = "read" /\ Len(RawTab[last.arg.raw]) <= MaxLineLen) =>
        (last.arg.why = "repeated" <=> RepetitiveTab[last.arg.raw])

\* C19, the direction that holds: the heuristic drops no text of at most
\* 100 characters and no text below the ratio.
C19_DropsOnlyRepetitive ==
    (last.op = "read" /\ last.arg.why = "repeated") => RepetitiveTab[last.arg.raw]

InitConn ==
    /\ current_port = "A"
    /\ readers = <<NewReader("A")>>
    /\ serial_thread = 1
    /\ status = InitStatus
    /\ error_file = NoFile
    /\ serial_conn = [bound |-> FALSE, port |-> None, open |-> FALSE, gen |-> 0]
    /\ port_lock = 0
    /\ handlers = <<>>
    /\ main_pc = "serving"
    /\ nfed = 0
    /\ last = [op |-> "init", arg |-> None, exc |-> None, st |-> InitStatus, file |-> NoFile]
    /\ monitor = NoMonitor
    /\ connection_state = NoConnection
    /\ error_data = None
    /\ current_scanning_bus = None
    /\ wake_timers = <<>>

\* the reader counts a failed read as an error of the device
ReaderReadFailsCounted(r, e) ==
    /\ ReaderAt(r, "read")
    /\ serial_conn.bound /\ serial_conn.open
    /\ status' = [status EXCEPT !.serial_connected = FALSE,
                                !.stats.errors = @ + 1]
    /\ readers' = [readers EXCEPT ![r].pc = "close"]
    /\ last' = Op("read_error", [exc |-> e, gen |-> serial_conn.gen], e)
    /\ UNCHANGED <<error_file, serial_conn, current_port, serial_thread, port_lock, handlers,
                   main_pc, nfed>>
    /\ UNCHANGED <<monitor, connection_state, error_data, current_scanning_bus, wake_timers>>

\* 1106-1107 raise on an open connection (the device was unplugged, the
\* read failed).  SerialException: 1157-1160; any other exception:
\* 1161-1164, and the read loop goes on
ReaderReadFails(r, e) ==
    /\ ReaderAt(r, "read")
    /\ serial_conn.bound /\ serial_conn.open
    /\ IF e = "SerialException"
       THEN /\ status' = [status EXCEPT !.serial_connected = FALSE]
            /\ readers' = [readers EXCEPT ![r].pc = "close"]
       ELSE /\ readers' = [readers EXCEPT ![r].pc = "loop"]
            /\ UNCHANGED status
    /\ last' = Op("read_error", [exc |-> e, gen |-> serial_conn.gen], e)
    /\ UNCHANGED <<error_file, serial_conn, current_port, serial_thread, port_lock, handlers,
                   main_pc, nfed>>
    /\ UNCHANGED <<monitor, connection_state, error_data, current_scanning_bus, wake_timers>>

\* 1190-1200: the thread leaves `while running` and ends
ReaderCleanup(r) ==
    /\ ReaderAt(r, "cleanup")
    /\ serial_conn' = IF serial_conn.bound /\ serial_conn.open
                      THEN [serial_conn EXCEPT !.open = FALSE]
                      ELSE serial_conn
    /\ status' = [status EXCEPT !.serial_connected = FALSE]
    /\ readers' = [readers EXCEPT ![r].pc = "ended"]
    /\ UNCHANGED <<error_file, current_port, serial_thread, port_lock, handlers, main_pc, nfed,
                   last>>
    /\ UNCHANGED <<monitor, connection_state, error_data, current_scanning_bus, wake_timers>>

\* main 5368-5370: KeyboardInterrupt, running = False
MainStop ==
    /\ main_pc = "serving"
    /\ main_pc' = "stopping"
    /\ UNCHANGED <<status, error_file, serial_conn, current_port, serial_thread, port_lock,
                   readers, handlers, nfed, last>>
    /\ UNCHANGED <<monitor, connection_state, error_data, current_scanning_bus, wake_timers>>

\* main 5371-5372: `if serial_conn: serial_conn.close()`
MainClose ==
    /\ main_pc = "stopping"
    /\ main_pc' = "stopped"
    /\ serial_conn' = IF serial_conn.bound THEN [serial_conn EXCEPT !.open = FALSE]
                      ELSE serial_conn
    /\ UNCHANGED <<status, error_file, current_port, serial_thread, port_lock, readers,
                   handlers, nfed, last>>
    /\ UNCHANGED <<monitor, connection_state, error_data, current_scanning_bus, wake_timers>>

\* the steps of the reader thread
ReaderNext ==
    \/ \E r \in DOMAIN readers : ReaderInit(r)
    \/ \E r \in DOMAIN readers : ReaderGetPort(r)
    \/ \E r \in DOMAIN readers : ReaderCloseOld(r)
    \/ \E r \in DOMAIN readers : \E ok \in BOOLEAN : ReaderOpen(r, ok)
    \/ \E r \in DOMAIN readers : ReaderLoop(r)
    \/ \E r \in DOMAIN readers : ReaderCheckPort(r)
    \/ \E r \in DOMAIN readers : \E data \in BOOLEAN : ReaderRead(r, data)
    \/ \E r \in DOMAIN readers : \E e \in ReadErrors : ReaderReadFails(r, e)
    \/ \E r \in DOMAIN readers : ReaderProcess(r)
    \/ \E r \in DOMAIN readers : ReaderClose(r)
    \/ \E r \in DOMAIN readers : ReaderCleanup(r)

NextConn ==
    \/ ReaderNext
    \/ MainStop
    \/ MainClose

SpecConn == InitConn /\ [][NextConn]_vars

\* The connectivity status the snapshot shows: status['serial_connected'] is
\* the only field that holds it, and it is True or False.
Connectivity(st) == IF st.serial_connected THEN "Connected" ELSE "Disconnected"

\* The transitions the connection manager is specified to make.
ConnectivitySteps ==
    { <<"Disconnected", "Connecting">>, <<"Connecting", "Connected">>,
      <<"Connecting", "Disconnected">>, <<"Connected", "Disconnected">> }

\* A read of the open connection has just failed.
ReadJustFailed == last' # last /\ last'.op = "read_error"

\* C22 as stated: the connectivity status changes only along
\* Disconnected -> Connecting -> Connected and Connected -> Disconnected,
\* so Connected is entered from Connecting only, and every failed read
\* leaves it Disconnected.
C22_OnlySpecifiedTransitions ==
    [][ /\ Connectivity(status') # Connectivity(status) =>
              <<Connectivity(status), Connectivity(status')>> \in ConnectivitySteps
        /\ ReadJustFailed => Connectivity(status') = "Disconnected" ]_vars

\* C22, the part about failed reads alone
C22_FailedReadDisconnects ==
    [][ReadJustFailed => Connectivity(status') = "Disconnected"]_vars

\* the positions of the read loop 1098-1164
InReadLoop(r) == readers[r].pc \in {"loop", "check", "read", "process"}

\* The read that failed last was a read of the connection that is still the
\* open one.
FailedOnThisConnection ==
    /\ last.op = "read_error"
    /\ serial_conn.bound /\ serial_conn.open
    /\ serial_conn.gen = last.arg.gen

\* C23 as stated, for read errors: once a read has failed the reader is on
\* its way to open the port again; it does not go on reading the connection
\* that failed.
C23_FailureThenReopen ==
    \A r \in DOMAIN readers : FailedOnThisConnection => ~InReadLoop(r)

\* C23 for the read errors the reader takes for connection failures: after
\* a SerialException the reader is at 1167, closing the connection on its
\* way back to the open of 1074.
C23_SerialExceptionThenReopen ==
    \A r \in DOMAIN readers :
        (FailedOnThisConnection /\ last.exc = "SerialException") => readers[r].pc = "close"

\* A step in which reader r meets a transport error or handles it: the open
\* fails (1067-1095), the read fails (1157-1164), the connection is closed
\* behind a failed read (1167-1172).
TransportErrorStep(r) ==
    \/ readers[r].pc = "open" /\ readers'[r].pc = "top"
    \/ readers[r].pc = "read" /\ readers'[r].pc = "close"
    \/ readers[r].pc = "read" /\ ReadJustFailed
    \/ readers[r].pc = "close" /\ readers'[r].pc = "top"

\* the store with the two connectivity fields blanked
WithoutConnectivity(st) == [st EXCEPT !.serial_connected = FALSE, !.serial_port = ""]

\* C25: a transport error changes nothing of the store but the
\* connectivity fields serial_connected and serial_port: the error log,
\* the persisted document, the counters and the subsystem states stay as
\* they were, and the reader stays inside `while running`.
C25_TransportErrorsTouchConnectivityOnly ==
    [][\A r \in DOMAIN readers :
           TransportErrorStep(r) =>
               /\ WithoutConnectivity(status') = WithoutConnectivity(status)
               /\ error_file' = error_file
               /\ readers'[r].pc \notin {"cleanup", "ended"}]_vars

\* After a line was appended and classified, a read of the open connection
\* raised SerialException: the status went from connected to disconnected
\* and the rest of the store is as it was.
C25_Witness ==
    /\ last.op = "read_error"
    /\ last.exc = "SerialException"
    /\ Len(last.st.logs) = 1
    /\ last.st.serial_connected
    /\ ~status.serial_connected
    /\ WithoutConnectivity(status) = WithoutConnectivity(last.st)
    /\ \E r \in DOMAIN readers : readers[r].pc = "close"

\* The reader thread is scheduled again and again, and its sleeps and its
\* reads with a timeout end (1074 timeout=1, 1070, 1095, 1153, 1164).
SpecConnLive == SpecConn /\ WF_vars(ReaderNext)

\* the positions of the body of the read loop, past its test at 1098
InLoopBody(r) == readers[r].pc \in {"check", "read", "process"}

\* every reader thread has ended, the connection is closed and the
\* connectivity status is disconnected
ReaderStopped ==
    /\ \A r \in DOMAIN readers : readers[r].pc = "ended"
    /\ ~(serial_conn.bound /\ serial_conn.open)
    /\ ~status.serial_connected

VerifierLits ==
    { "error", "aws_iot", ") ",
      "2nd stage bootloader",
      ":",
      "AWS IoT",
      "Assistant ready:",
      "E (",
      "ESP-IDF v",
      "ESP-ROM:",
      "Failed",
      "I2S driver installed",
      "IP address",
      "IP:",
      "Korvo-1 microphone initialized",
      "LED controller initialized",
      "OpenAI Realtime API started",
      "Pipeline: I2S",
      "Realtime",
      "Session created: ",
      "Spotify",
      "Starting continuous realtime audio streaming",
      "W (",
      "WS2812 strip",
      "WakeNet",
      "WakeNet9l",
      "Warning",
      "WebSocket connected to OpenAI Realtime API",
      "Wi-Fi connected",
      "[0;31mE (",
      "[0;33mW (",
      "aid =",
      "connected",
      "connected with",
      "enabled",
      "failed",
      "initialized",
      "korvo_audio:",
      "led_controller:",
      "local control",
      "openai_client:",
      "spotify_client: Init",
      "sta ip: ",
      "voice_pipeline:",
      "warn",
      "websocket_client:" }

\* the positions at which the literal k occurs in the text t
Occ(k, t) == {i \in 1..Len(t) : At(k, t, i)}

\* a line as the patterns see it: its text, and for every literal where it
\* occurs (case kept) and how long it is
VerifierLine(s) ==
    [ text |-> Chars(s),
      at   |-> [k \in VerifierLits |-> Occ(Chars(k), Chars(s))],
      len  |-> [k \in VerifierLits |-> Len(Chars(k))] ]

\* re.search of a pattern that is a literal
HasLit(lit, t) == t.at[lit] # {}

\* re.search('a.*b', t)
HasThen(a, b, t) == \E i \in t.at[a] : \E j \in t.at[b] : j >= i + t.len[a]

\* the match of 'lit[cls]+' at position i
LitClassAt(lit, cls, t, i) ==
    /\ i \in t.at[lit]
    /\ i + t.len[lit] <= Len(t.text)
    /\ t.text[i + t.len[lit]] \in cls

\* re.search('lit[cls]+', t)
HasLitClass(lit, cls, t) == \E i \in t.at[lit] : LitClassAt(lit, cls, t, i)

\* re.search('lit[^\s]+', t)
HasLitNonSpace(lit, t) ==
    \E i \in t.at[lit] :
        /\ i + t.len[lit] <= Len(t.text)
        /\ t.text[i + t.len[lit]] \notin Whitespace

\* re.search('X \([0-9]+\) .*:.*word', t) for the level letter X
HasLevelWord(open, word, t) ==
    \E i \in t.at[open] :
        \E q \in {RunEnd(t.text, i + t.len[open], Digit)} :
            /\ q > i + t.len[open]
            /\ q \in t.at[") "]
            /\ \E j \in t.at[":"] :
                  j >= q + 2 /\ \E k \in t.at[word] : k >= j + 1

DigitOrDot == Digit \cup {"."}

\* 52-72: the keys of self.patterns, in the order of the dict
PatternTypes ==
    << "bootloader", "wifi_connected", "ip_address", "led_controller", "audio",
       "voice_pipeline", "openai_realtime", "websocket_connected", "session_created",
       "assistant_ready", "wakenet", "spotify", "aws_iot", "error", "warning" >>

\* 53-71: a pattern of the type matches the text (for 'bootloader', one of
\* the patterns of the list)
PatternMatches(ptype, t) ==
    CASE ptype = "bootloader" ->
            \/ HasLitClass("ESP-IDF v", DigitOrDot, t)
            \/ HasLit("2nd stage bootloader", t)
            \/ HasLit("ESP-ROM:", t)
      [] ptype = "wifi_connected" ->
            \/ HasLit("Wi-Fi connected", t)
            \/ HasThen("connected with", "aid =", t)
            \/ HasLitClass("sta ip: ", DigitOrDot, t)
      [] ptype = "ip_address" ->
            \/ HasLitClass("IP:", DigitOrDot, t)
            \/ HasLitClass("sta ip: ", DigitOrDot, t)
            \/ HasLit("IP address", t)
      [] ptype = "led_controller" ->
            \/ HasLit("LED controller initialized", t)
            \/ HasLit("WS2812 strip", t)
            \/ HasLit("led_controller:", t)
      [] ptype = "audio" ->
            \/ HasLit("Korvo-1 microphone initialized", t)
            \/ HasLit("I2S driver installed", t)
            \/ HasLit("korvo_audio:", t)
      [] ptype = "voice_pipeline" ->
            \/ HasLit("Starting continuous realtime audio streaming", t)
            \/ HasLit("Pipeline: I2S", t)
            \/ HasLit("voice_pipeline:", t)
      [] ptype = "openai_realtime" ->
            \/ HasLit("OpenAI Realtime API started", t)
            \/ HasThen("openai_client:", "Realtime", t)
      [] ptype = "websocket_connected" ->
            \/ HasLit("WebSocket connected to OpenAI Realtime API", t)
            \/ HasThen("websocket_client:", "connected", t)
      [] ptype = "session_created" ->
            HasLitNonSpace("Session created: ", t)
      [] ptype = "assistant_ready" -> HasLit("Assistant ready:", t)
      [] ptype = "wakenet" ->
            \/ HasThen("WakeNet", "enabled", t)
            \/ HasLit("WakeNet9l", t)
            \/ HasThen("WakeNet", "local control", t)
      [] ptype = "spotify" ->
            \/ HasThen("Spotify", "initialized", t)
            \/ HasLit("spotify_client: Init", t)
      [] ptype = "aws_iot" ->
            \/ HasThen("AWS IoT", "connected", t)
            \/ HasThen("aws_iot", "initialized", t)
      [] ptype = "error" ->
            \/ HasLit("[0;31mE (", t)
            \/ HasLevelWord("E (", "error", t)
            \/ HasLit("failed", t)
            \/ HasLit("Failed", t)
      [] ptype = "warning" ->
            \/ HasLit("[0;33mW (", t)
            \/ HasLevelWord("W (", "warn", t)
            \/ HasLit("Warning", t)

\* 170-189: the loop over self.patterns. A match in the bootloader list
\* leaves only the inner loop (181), so a later type that matches replaces
\* it; a match of any other type ends the loop (189).
RECURSIVE ParseFrom(_, _, _)
ParseFrom(t, i, type) ==
    IF i > Len(PatternTypes) THEN type
    ELSE IF PatternMatches(PatternTypes[i], t)
         THEN IF PatternTypes[i] = "bootloader"
              THEN ParseFrom(t, i + 1, PatternTypes[i])
              ELSE PatternTypes[i]
         ELSE ParseFrom(t, i + 1, type)

\* 59: which alternative of the ip_address pattern matches at i
IpAlt(t, i) ==
    IF LitClassAt("IP:", DigitOrDot, t, i) THEN 1
    ELSE IF LitClassAt("sta ip: ", DigitOrDot, t, i) THEN 2
    ELSE IF i \in t.at["IP address"] THEN 3 ELSE 0

\* 263-264: groups[0] or groups[1] of the leftmost match of the ip_address
\* pattern; <<>> stands for None
IpGroup(t) ==
    LET at == {i \in 1..Len(t.text) : IpAlt(t, i) > 0}
        i == CHOOSE m \in at : \A n \in at : m <= n
        from == IF IpAlt(t, i) = 1 THEN i + 3 ELSE i + 8
    IN  IF at = {} THEN <<>>
        ELSE IF IpAlt(t, i) = 3 THEN <<>>
        ELSE SubSeq(t.text, from, RunEnd(t.text, from, DigitOrDot) - 1)

\* 167-191: DeviceVerifier.parse_log_line
VerifierParseLogLine(t) ==
    [type |-> ParseFrom(t, 1, "None"), ip |-> IpGroup(t), text |-> t.text]

\* the lines the device sends while monitor_boot listens (text, after
\* decode and strip at 235); "" is a line of white space only
VerifierLines ==
    { "ESP-ROM:esp32s3-20210327",
      "I (24) boot: ESP-IDF v5.1.2 2nd stage bootloader",
      "I (512) wifi_mgr: Wi-Fi connected",
      "I (1234) wifi: IP:192.168.1.42",
      "E (700) spotify: init failed",
      "E (5) boot: ESP-ROM: load failed",
      "" }

\* parse_log_line of every line of a set, as a table
RECURSIVE VerifierTabOver(_)
VerifierTabOver(S) ==
    LET s == CHOOSE x \in S : TRUE
    IN  IF S = {s} THEN s :> VerifierParseLogLine(VerifierLine(s))
        ELSE (s :> VerifierParseLogLine(VerifierLine(s))) @@ VerifierTabOver(S \ {s})

\* 236: only a non-empty text is parsed
VerifierTab == VerifierTabOver(VerifierLines \ {""})

\* the overall timeout of monitor_boot, in seconds (parameter `timeout`, 193)
timeout == 12

\* 339: seconds without a line after which a booted device is taken as done
StallWindow == 10

\* 210-225: self.initialization_status as monitor_boot resets it
InitializationStatus ==
    [ bootloader |-> FALSE, wifi |-> FALSE, ip_address |-> <<>>, led_controller |-> FALSE,
      audio |-> FALSE, voice_pipeline |-> FALSE, openai_realtime |-> FALSE,
      websocket_connected |-> FALSE, session_created |-> FALSE, wakenet |-> FALSE,
      spotify |-> FALSE, aws_iot |-> FALSE, errors |-> <<>>, warnings |-> <<>> ]

\* 99-100 of the text kept for an error or a warning
First100(t) == IF Len(t) > 100 THEN SubSeq(t, 1, 100) ELSE t

\* 248-325: the update of initialization_status for a parsed line
StatusAfter(ist, boot_detected, parsed) ==
    CASE parsed.type = "bootloader" /\ ~boot_detected -> [ist EXCEPT !.bootloader = TRUE]
      [] parsed.type = "wifi_connected" -> [ist EXCEPT !.wifi = TRUE]
      [] parsed.type = "ip_address" /\ parsed.ip # <<>> -> [ist EXCEPT !.ip_address = parsed.ip]
      [] parsed.type = "led_controller" -> [ist EXCEPT !.led_controller = TRUE]
      [] parsed.type = "audio" -> [ist EXCEPT !.audio = TRUE]
      [] parsed.type = "voice_pipeline" -> [ist EXCEPT !.voice_pipeline = TRUE]
      [] parsed.type = "openai_realtime" -> [ist EXCEPT !.openai_realtime = TRUE]
      [] parsed.type = "websocket_connected" -> [ist EXCEPT !.websocket_connected = TRUE]
      [] parsed.type = "session_created" -> [ist EXCEPT !.session_created = TRUE]
      [] parsed.type = "wakenet" -> [ist EXCEPT !.wakenet = TRUE]
      [] parsed.type = "spotify" -> [ist EXCEPT !.spotify = TRUE]
      [] parsed.type = "aws_iot" -> [ist EXCEPT !.aws_iot = TRUE]
      [] parsed.type = "error" -> [ist EXCEPT !.errors = Append(@, First100(parsed.text))]
      [] parsed.type = "warning" -> [ist EXCEPT !.warnings = Append(@, First100(parsed.text))]
      [] OTHER -> ist

\* the dashboard's variables, which monitor_boot does not touch
DashboardUnchanged ==
    UNCHANGED <<status, error_file, serial_conn, current_port, serial_thread, port_lock,
                readers, handlers, main_pc, last, connection_state, error_data,
                current_scanning_bus, wake_timers>>

\* reboot_and_verify.py main: the verifier has been constructed and
\* connect() has or has not opened the port; monitor_boot is about to be called
InitBoot ==
    /\ current_port = None
    /\ readers = <<>>
    /\ serial_thread = 0
    /\ status = InitStatus
    /\ error_file = NoFile
    /\ serial_conn = [bound |-> FALSE, port |-> None, open |-> FALSE, gen |-> 0]
    /\ port_lock = 0
    /\ handlers = <<>>
    /\ main_pc = "stopped"
    /\ nfed = 0
    /\ last = [op |-> "init", arg |-> None, exc |-> None, st |-> InitStatus, file |-> NoFile]
    /\ connection_state = NoConnection
    /\ error_data = None
    /\ current_scanning_bus = None
    /\ wake_timers = <<>>
    /\ \E c \in BOOLEAN :
          monitor = [pc |-> "start", is_open |-> c, now |-> 0, start_time |-> 0,
                     last_log_time |-> 0, boot_detected |-> FALSE,
                     initialization_status |-> InitializationStatus,
                     step |-> "none", returned |-> "none",
                     parsed |-> [line |-> "", type |-> "None"]]

\* 195-197 and 203-229: no open port: return False; else the locals are set
\* and the input buffer is flushed
MonitorStart ==
    /\ monitor.pc = "start"
    /\ monitor' = IF ~monitor.is_open
                  THEN [monitor EXCEPT !.pc = "done", !.step = "not_connected",
                                       !.returned = FALSE]
                  ELSE [monitor EXCEPT !.pc = "loop", !.step = "start",
                                       !.start_time = monitor.now,
                                       !.last_log_time = monitor.now,
                                       !.boot_detected = FALSE,
                                       !.initialization_status = InitializationStatus]
    /\ UNCHANGED nfed
    /\ DashboardUnchanged

\* the clock: a second passes
Tick ==
    /\ monitor.pc = "loop"
    /\ monitor.now < timeout + 1
    /\ monitor' = [monitor EXCEPT !.now = @ + 1, !.step = "tick"]
    /\ UNCHANGED nfed
    /\ DashboardUnchanged

InTime == monitor.now - monitor.start_time < timeout

\* 231-336: an iteration with input waiting: the line s is read
MonitorLine(s) ==
    /\ monitor.pc = "loop"
    /\ InTime
    /\ nfed < MaxFeeds
    /\ nfed' = nfed + 1
    /\ IF s = ""
       THEN monitor' = [monitor EXCEPT !.step = "line"]
       ELSE \E parsed \in {VerifierTab[s]} :
               monitor' = [monitor EXCEPT
                              !.step = "line",
                              !.parsed = [line |-> s, type |-> parsed.type],
                              !.last_log_time = monitor.now,
                              !.boot_detected = @ \/ parsed.type = "bootloader",
                              !.initialization_status =
                                  StatusAfter(@, monitor.boot_detected, parsed)]
    /\ DashboardUnchanged

\* 339-341 without the test of boot_detected
MonitorIdleAnySilence ==
    /\ monitor.pc = "loop"
    /\ InTime
    /\ monitor' = IF monitor.now - monitor.last_log_time > StallWindow
                  THEN [monitor EXCEPT !.pc = "done", !.step = "stall", !.returned = TRUE]
                  ELSE [monitor EXCEPT !.step = "sleep"]
    /\ UNCHANGED nfed
    /\ DashboardUnchanged

\* 231-232, 339-344: an iteration with no input waiting: the stall check,
\* else sleep(0.1)
MonitorIdle ==
    /\ monitor.pc = "loop"
    /\ InTime
    /\ monitor' = IF monitor.boot_detected
                     /\ monitor.now - monitor.last_log_time > StallWindow
                  THEN [monitor EXCEPT !.pc = "done", !.step = "stall", !.returned = TRUE]
                  ELSE [monitor EXCEPT !.step = "sleep"]
    /\ UNCHANGED nfed
    /\ DashboardUnchanged

\* 231, 351-352: the loop condition fails
MonitorTimeout ==
    /\ monitor.pc = "loop"
    /\ ~InTime
    /\ monitor' = [monitor EXCEPT !.pc = "done", !.step = "timeout", !.returned = TRUE]
    /\ UNCHANGED nfed
    /\ DashboardUnchanged

\* 232-233, 346-352: in_waiting or readline raises, or the user presses
\* Ctrl-C: the handler prints and the function returns True
MonitorRaise ==
    /\ monitor.pc = "loop"
    /\ InTime
    /\ monitor' = [monitor EXCEPT !.pc = "done", !.step = "exception", !.returned = TRUE]
    /\ UNCHANGED nfed
    /\ DashboardUnchanged

NextBoot ==
    \/ MonitorStart
    \/ Tick
    \/ \E s \in VerifierLines : MonitorLine(s)
    \/ MonitorIdle
    \/ MonitorTimeout
    \/ MonitorRaise

SpecBoot == InitBoot /\ [][NextBoot]_vars

\* the session ended in this step
SessionEnds == monitor.pc = "loop" /\ monitor'.pc = "done"

\* an iteration of the loop with no input waiting
IdleIteration == monitor.pc = "loop" /\ monitor'.step \in {"stall", "sleep"}

Silence == monitor.now - monitor.last_log_time

C26_SilentBeforeBoot ==
    /\ monitor.pc = "loop" /\ ~monitor.boot_detected
    /\ monitor.step = "sleep"
    /\ Silence > StallWindow
    /\ nfed > 0

\* The entries of self.patterns that match the text, as positions of the
\* declaration order.
MatchingEntries(t) == {i \in 1..Len(PatternTypes) : PatternMatches(PatternTypes[i], t)}

\* The type of the first entry of self.patterns that matches the text,
\* "None" when no entry matches.
FirstMatch(t) ==
    IF MatchingEntries(t) = {} THEN "None"
    ELSE PatternTypes[CHOOSE i \in MatchingEntries(t) : \A j \in MatchingEntries(t) : i <= j]

\* The type of the first entry after the bootloader list that matches.
FirstMatchAfterList(t) ==
    IF MatchingEntries(t) \ {1} = {} THEN "None"
    ELSE PatternTypes[CHOOSE i \in MatchingEntries(t) \ {1} :
                          \A j \in MatchingEntries(t) \ {1} : i <= j]

\* FirstMatch and FirstMatchAfterList of every line of a set, as a table
RECURSIVE FirstMatchTabOver(_)
FirstMatchTabOver(S) ==
    LET s == CHOOSE x \in S : TRUE
        row == s :> [first |-> FirstMatch(VerifierLine(s)),
                     after_list |-> FirstMatchAfterList(VerifierLine(s))]
    IN  IF S = {s} THEN row ELSE row @@ FirstMatchTabOver(S \ {s})

FirstMatchTab == FirstMatchTabOver(VerifierLines \ {""})

\* C32 as stated: DeviceVerifier.parse_log_line returns the type of the
\* first entry of self.patterns, in declaration order and the bootloader
\* list included, that matches the line; no later entry overrides it.
C32_FirstMatchWins ==
    monitor.parsed.line # "" => monitor.parsed.type = FirstMatchTab[monitor.parsed.line].first

\* What the loop does: among the entries after the bootloader list the
\* first match wins, and the bootloader list yields the type only when no
\* later entry matches.
C32_ListIsOverridden ==
    monitor.parsed.line # "" =>
        \E f \in {FirstMatchTab[monitor.parsed.line]} :
            monitor.parsed.type = IF f.after_list # "None" THEN f.after_list ELSE f.first

\* a line that matches the bootloader list and a later entry was parsed
C32_ListAndLaterMatch ==
    /\ monitor.parsed.line # ""
    /\ \E f \in {FirstMatchTab[monitor.parsed.line]} :
           f.first = "bootloader" /\ f.after_list # "None"

(***************************************************************************)
(* scripts/ble_client_test.py: the chunked Wi-Fi list of the BLE client:   *)
(* SpecBle.  A notification is a tuple of bytes, spelled as in the serial  *)
(* reader's model; a text is a tuple of characters.                        *)
(***************************************************************************)

\* 39-41
WIFI_LIST_START == <<"W","I","F","I","_","L","I","S","T","_","S","T","A","R","T">>
WIFI_LIST_END == <<"W","I","F","I","_","L","I","S","T","_","E","N","D">>
WIFI_LIST_ERROR == <<"W","I","F","I","_","L","I","S","T","_","E","R","R","O","R">>

Markers == {WIFI_LIST_START, WIFI_LIST_END, WIFI_LIST_ERROR}

\* the fragments the device sends: [{"ssid":"A"} and ] ; [{"ssid":"caf\xc3
\* and \xa9"}] (a list cut inside the two bytes of U+00E9); [] ; a list
\* that is complete in one notification
Fragments ==
    { <<"[","{","\"","s","s","i","d","\"",":","\"","A","\"","}">>,
      <<"]">>,
      <<"[","{","\"","s","s","i","d","\"",":","\"","c","a","f","xC3">>,
      <<"xA9","\"","}","]">>,
      <<"[","{","\"","s","s","i","d","\"",":","\"","B","\"","}","]">> }

\* the notifications of the TX characteristic
Notifications == Markers \cup Fragments

\* the longest run of notifications
MaxNotifications == 4

(***************************************************************************)
(* json.loads, for texts without white space and without escapes: arrays,  *)
(* objects, strings and integers.                                          *)
(***************************************************************************)
JsonFail == [ok |-> FALSE, next |-> 0, val |-> [t |-> "none", v |-> <<>>]]

JsonOk(next, type, v) == [ok |-> TRUE, next |-> next, val |-> [t |-> type, v |-> v]]

JsonString(t, i) ==
    IF i <= Len(t) /\ t[i] = "\""
    THEN LET q == RunEndNot(t, i + 1, {"\"", "\\"})
         IN  IF q <= Len(t) /\ t[q] = "\"" THEN JsonOk(q + 1, "str", SubSeq(t, i + 1, q - 1))
             ELSE JsonFail
    ELSE JsonFail

JsonNumber(t, i) ==
    IF i > Len(t) THEN JsonFail
    ELSE LET s == IF t[i] = "-" THEN i + 1 ELSE i
             q == RunEnd(t, s, Digit)
         IN  IF q > s /\ (t[s] = "0" => q = s + 1) THEN JsonOk(q, "int", SubSeq(t, i, q - 1))
             ELSE JsonFail

RECURSIVE JsonValue(_, _)
RECURSIVE JsonItems(_, _, _)
RECURSIVE JsonMembers(_, _, _)

\* the elements of an array from position i, after acc
JsonItems(t, i, acc) ==
    LET e == JsonValue(t, i)
    IN  IF ~e.ok \/ e.next > Len(t) THEN JsonFail
        ELSE IF t[e.next] = "," THEN JsonItems(t, e.next + 1, Append(acc, e.val))
        ELSE IF t[e.next] = "]" THEN JsonOk(e.next + 1, "list", Append(acc, e.val))
        ELSE JsonFail

\* the members of an object from position i, after acc
JsonMembers(t, i, acc) ==
    LET k == JsonString(t, i)
    IN  IF ~k.ok \/ k.next > Len(t) \/ t[k.next] # ":" THEN JsonFail
        ELSE LET e == JsonValue(t, k.next + 1)
                 kv == [key |-> k.val.v, value |-> e.val]
             IN  IF ~e.ok \/ e.next > Len(t) THEN JsonFail
                 ELSE IF t[e.next] = "," THEN JsonMembers(t, e.next + 1, Append(acc, kv))
                 ELSE IF t[e.next] = "}" THEN JsonOk(e.next + 1, "dict", Append(acc, kv))
                 ELSE JsonFail

JsonValue(t, i) ==
    IF i > Len(t) THEN JsonFail
    ELSE IF t[i] = "["
         THEN IF i < Len(t) /\ t[i + 1] = "]" THEN JsonOk(i + 2, "list", <<>>)
              ELSE JsonItems(t, i + 1, <<>>)
    ELSE IF t[i] = "{"
         THEN IF i < Len(t) /\ t[i + 1] = "}" THEN JsonOk(i + 2, "dict", <<>>)
              ELSE JsonMembers(t, i + 1, <<>>)
    ELSE IF t[i] = "\"" THEN JsonString(t, i)
    ELSE JsonNumber(t, i)

\* json.loads(t); JSONDecodeError is ok = FALSE
JsonLoads(t) ==
    LET r == JsonValue(t, 1)
    IN  IF r.ok /\ r.next = Len(t) + 1 THEN r ELSE JsonFail

\* "".join(texts)
RECURSIVE Join(_)
Join(texts) == IF texts = <<>> THEN <<>> ELSE Head(texts) \o Join(Tail(texts))

\* 49-53: BLEConnection()
NewBLEConnection ==
    [ pc |-> "idle", wifi_networks |-> <<>>, collecting_wifi_list |-> FALSE,
      wifi_list_complete |-> FALSE, parsed_wifi_list |-> <<>> ]

\* 55-60: reset_wifi_collection
reset_wifi_collection(c) ==
    [c EXCEPT !.wifi_networks = <<>>, !.collecting_wifi_list = FALSE,
              !.wifi_list_complete = FALSE, !.parsed_wifi_list = <<>>]

\* 124-149: parse_and_display_wifi_list
parse_and_display_wifi_list(c) ==
    IF c.wifi_networks = <<>> THEN c
    ELSE LET wifi_json == JsonLoads(Join(c.wifi_networks))
         IN  IF wifi_json.ok /\ wifi_json.val.t = "list"
             THEN [c EXCEPT !.parsed_wifi_list = wifi_json.val.v]
             ELSE c

\* 85-121: notification_handler(sender, data)
notification_handler(c, data) ==
    LET text == DecodeReplace(data) IN
    IF text = WIFI_LIST_START
    THEN [reset_wifi_collection(c) EXCEPT !.collecting_wifi_list = TRUE]
    ELSE IF text = WIFI_LIST_END
    THEN parse_and_display_wifi_list([c EXCEPT !.collecting_wifi_list = FALSE,
                                               !.wifi_list_complete = TRUE])
    ELSE IF text = WIFI_LIST_ERROR
    THEN [c EXCEPT !.collecting_wifi_list = FALSE, !.wifi_list_complete = TRUE]
    ELSE IF c.collecting_wifi_list
    THEN [c EXCEPT !.wifi_networks = Append(@, text)]
    ELSE c

\* What the device has sent of the current list, by the protocol: the
\* fragments since the last WIFI_LIST_START, and whether that collection is
\* still open (no END, ERROR or scan timeout since).
NoList == [open |-> FALSE, received |-> <<>>]

ListAfter(l, data) ==
    IF data = WIFI_LIST_START THEN [open |-> TRUE, received |-> <<>>]
    ELSE IF data \in {WIFI_LIST_END, WIFI_LIST_ERROR} THEN [l EXCEPT !.open = FALSE]
    ELSE IF l.open THEN [l EXCEPT !.received = Append(@, data)]
    ELSE l

\* the variables of the dashboard and of the boot monitor, which this
\* client does not touch
BleUnchanged ==
    UNCHANGED <<status, error_file, serial_conn, current_port, serial_thread, port_lock,
                readers, handlers, main_pc, monitor, error_data, current_scanning_bus,
                wake_timers>>

\* 63: connection_state = BLEConnection(); the client is connected and
\* notifications are enabled
InitBle ==
    /\ current_port = None
    /\ readers = <<>>
    /\ serial_thread = 0
    /\ status = InitStatus
    /\ error_file = NoFile
    /\ serial_conn = [bound |-> FALSE, port |-> None, open |-> FALSE, gen |-> 0]
    /\ port_lock = 0
    /\ handlers = <<>>
    /\ main_pc = "stopped"
    /\ nfed = 0
    /\ monitor = NoMonitor
    /\ error_data = None
    /\ current_scanning_bus = None
    /\ wake_timers = <<>>
    /\ connection_state = NewBLEConnection
    /\ last = [op |-> "init", arg |-> None, exc |-> None, list |-> NoList, before |-> NoList]

\* a notification arrives and notification_handler runs
Notify(data) ==
    /\ nfed < MaxNotifications
    /\ nfed' = nfed + 1
    /\ connection_state' = notification_handler(connection_state, data)
    /\ last' = [op |-> "notify", arg |-> data, exc |-> None,
                list |-> ListAfter(last.list, data), before |-> last.list]
    /\ BleUnchanged

\* 177-183: scan_wifi resets the collection and sends SCAN
ScanWifi ==
    /\ connection_state.pc = "idle"
    /\ connection_state' = [reset_wifi_collection(connection_state) EXCEPT !.pc = "waiting"]
    /\ last' = [op |-> "scan", arg |-> None, exc |-> None,
                list |-> [last.list EXCEPT !.open = FALSE], before |-> last.list]
    /\ UNCHANGED nfed
    /\ BleUnchanged

\* 186-187: wifi_list_complete was set within 30 s
ScanDone ==
    /\ connection_state.pc = "waiting"
    /\ connection_state.wifi_list_complete
    /\ connection_state' = [connection_state EXCEPT !.pc = "idle"]
    /\ last' = [op |-> "scan_done", arg |-> None, exc |-> None, list |-> last.list,
                before |-> last.list]
    /\ UNCHANGED nfed
    /\ BleUnchanged

\* 188-190: asyncio.TimeoutError after 30 s
ScanTimeout ==
    /\ connection_state.pc = "waiting"
    /\ ~connection_state.wifi_list_complete
    /\ connection_state' = [connection_state EXCEPT !.pc = "idle",
                                                    !.collecting_wifi_list = FALSE]
    /\ last' = [op |-> "scan_timeout", arg |-> None, exc |-> None,
                list |-> [last.list EXCEPT !.open = FALSE], before |-> last.list]
    /\ UNCHANGED nfed
    /\ BleUnchanged

NextBle ==
    \/ \E data \in Notifications : Notify(data)
    \/ ScanWifi
    \/ ScanDone
    \/ ScanTimeout

SpecBle == InitBle /\ [][NextBle]_vars

\* the bytes of a sequence of fragments, in arrival order
RECURSIVE Concat(_)
Concat(fs) == IF fs = <<>> THEN <<>> ELSE Head(fs) \o Concat(Tail(fs))

\* the list a text holds, or the empty list when it is no JSON list
ListOf(t) ==
    LET j == JsonLoads(t)
    IN  IF j.ok /\ j.val.t = "list" THEN j.val.v ELSE <<>>

\* WIFI_LIST_END has just closed a collection in which fragments arrived
ListJustEnded ==
    /\ last.op = "notify" /\ last.arg = WIFI_LIST_END
    /\ last.before.open
    /\ last.before.received # <<>>

\* C28 as stated: when WIFI_LIST_END closes a collection, the payload is the
\* list that the bytes of its fragments, concatenated in arrival order, hold
C28_PayloadIsConcatenation ==
    ListJustEnded =>
        connection_state.parsed_wifi_list = ListOf(DecodeReplace(Concat(last.before.received)))

\* C28, for the texts: while a collection is open the buffer holds the text
\* of every fragment received, once each and in arrival order
C28_TextsInArrivalOrder ==
    last.list.open =>
        connection_state.wifi_networks =
            [i \in 1..Len(last.list.received) |-> DecodeReplace(last.list.received[i])]

\* C29 as stated: after a WIFI_LIST_ERROR notification the fragment buffer is
\* empty and no parsed Wi-Fi list is available
C29_ErrorDiscardsEverything ==
    (last.op = "notify" /\ last.arg = WIFI_LIST_ERROR) =>
        /\ connection_state.wifi_networks = <<>>
        /\ connection_state.parsed_wifi_list = <<>>

\* C29, what the handler does on WIFI_LIST_ERROR: the collection is closed
\* and the waiting scan is released; the buffer and the parsed list are as
\* they were
C29_ErrorClosesCollection ==
    (last.op = "notify" /\ last.arg = WIFI_LIST_ERROR) =>
        /\ ~connection_state.collecting_wifi_list
        /\ connection_state.wifi_list_complete

\* a WIFI_LIST_END after a WIFI_LIST_ERROR has parsed the fragments that
\* arrived before the error
C29_StalePayload ==
    /\ last.op = "notify" /\ last.arg = WIFI_LIST_END
    /\ ~last.before.open
    /\ connection_state.parsed_wifi_list # <<>>
    /\ connection_state.parsed_wifi_list = ListOf(Join(connection_state.wifi_networks))

\* the step is the arrival of the notification data
Notified(data) == last'.op = "notify" /\ last'.arg = data /\ nfed' = nfed + 1

\* by the protocol a collection is open before the step
CollectionOpen == last.list.open

\* a notification outside a collection leaves the fragment buffer alone
OutsideNotCollected ==
    \A data \in Fragments :
        (Notified(data) /\ ~CollectionOpen) =>
            connection_state'.wifi_networks = connection_state.wifi_networks

\* WIFI_LIST_START in an open collection empties the fragment buffer
StartDiscardsEarlier ==
    (Notified(WIFI_LIST_START) /\ CollectionOpen) =>
        /\ connection_state'.wifi_networks = <<>>
        /\ connection_state'.parsed_wifi_list = <<>>

\* WIFI_LIST_END with no open collection leaves the payload as it was
EndOutsideNoPayload ==
    (Notified(WIFI_LIST_END) /\ ~CollectionOpen) =>
        connection_state'.parsed_wifi_list = connection_state.parsed_wifi_list

\* WIFI_LIST_END parses whatever the buffer holds, open collection or not
EndParsesBuffer ==
    Notified(WIFI_LIST_END) =>
        connection_state'.parsed_wifi_list =
            IF connection_state.wifi_networks = <<>>
            THEN connection_state.parsed_wifi_list
            ELSE IF JsonLoads(Join(connection_state.wifi_networks)).ok
                 THEN ListOf(Join(connection_state.wifi_networks))
                 ELSE connection_state.parsed_wifi_list

\* C39 as stated: only fragments of the current collection reach the
\* payload: a notification received while no collection is open (before
\* WIFI_LIST_START, after WIFI_LIST_END or WIFI_LIST_ERROR, or after a scan
\* timeout) is not collected, a WIFI_LIST_START received mid-collection
\* discards the fragments of the earlier collection, and a WIFI_LIST_END
\* received with no open collection produces no payload.
C39_OnlyCurrentCollection ==
    [][OutsideNotCollected /\ StartDiscardsEarlier /\ EndOutsideNoPayload]_vars

\* C39, what the handler does: a notification outside a collection is not
\* collected, WIFI_LIST_START empties the buffer, and WIFI_LIST_END parses
\* the buffer as it is, whether a collection is open or not.
C39_BufferOnlyWhileCollecting ==
    [][OutsideNotCollected /\ StartDiscardsEarlier /\ EndParsesBuffer]_vars

\* WIFI_LIST_END arrived with no collection open, and the payload is the
\* list of the fragments of a collection that was closed before
C39_PayloadOfClosedCollection ==
    /\ last.op = "notify" /\ last.arg = WIFI_LIST_END
    /\ ~last.before.open
    /\ last.before.received # <<>>
    /\ connection_state.parsed_wifi_list # <<>>
    /\ connection_state.parsed_wifi_list = ListOf(DecodeReplace(Concat(last.before.received)))

(***************************************************************************)
(* The error history across restarts of the dashboard: SpecRestart         *)
(***************************************************************************)

\* the lines the device reports
RestartInputs == {"sensors: fatal error", "Spotify init failed", Fam(2), Fam(ErrorCap + 2)}

\* main 5325-5333: the program has started, its reader thread is connected;
\* error_log.json is absent or holds more records than the cap
InitRestart ==
    /\ status = ConnectedStatus
    /\ error_file \in {NoFile, FileAfter(ErrorCap + 1)}
    /\ serial_conn = [bound |-> TRUE, port |-> "A", open |-> TRUE, gen |-> 1]
    /\ current_port = "A"
    /\ serial_thread = 1
    /\ port_lock = 0
    /\ readers = <<>>
    /\ handlers = <<>>
    /\ main_pc = "load_error_log"
    /\ nfed = 0
    /\ last = [op |-> "init", arg |-> None, exc |-> None, st |-> ConnectedStatus,
               file |-> error_file]
    /\ monitor = NoMonitor
    /\ connection_state = NoConnection
    /\ error_data = None
    /\ current_scanning_bus = None
    /\ wake_timers = <<>>

\* the process ends after a line and the program is started again: the
\* module is loaded anew (45-157), the reader thread connects (5325-5333);
\* error_log.json is what the ended process left
Restart ==
    /\ main_pc = "serving"
    /\ last.op = "line"
    /\ status' = ConnectedStatus
    /\ main_pc' = "load_error_log"
    /\ last' = Op("restart", None, None)
    /\ UNCHANGED <<error_file, serial_conn, current_port, serial_thread, port_lock,
                   readers, handlers, nfed>>
    /\ UNCHANGED <<monitor, connection_state, error_data, current_scanning_bus, wake_timers>>

NextRestart ==
    \/ MainLoadErrorLog
    \/ FeedLine(RestartInputs)
    \/ Restart

SpecRestart == InitRestart /\ [][NextRestart]_vars

\* the store's error log is what load_error_log makes of the document
LogIsLoaded(st, file) ==
    file.state = "ok" /\ st.error_log = LastN(file.errors, ErrorCap)

C30_LoadedNewest ==
    /\ last.op = "load"
    /\ Len(last.file.errors) > ErrorCap
    /\ Len(status.error_log) = ErrorCap
    /\ status.error_log[1].message = Fam(2)

\* a message of the document is reported before load_error_log has run (the
\* reader thread is started first, 5331): it is recorded as new and the
\* document is overwritten with the one record
C30_ReportedBeforeLoad ==
    /\ last.op = "line" /\ main_pc = "load_error_log"
    /\ Len(last.file.errors) = ErrorCap + 1
    /\ Cap(last.arg).stripped = Fam(2)
    /\ error_file.state = "ok"
    /\ Len(error_file.errors) = 1

(***************************************************************************)
(* The start of the dashboard: main loads the persisted error log while    *)
(* the reader thread it has started is already classifying: SpecStart      *)
(***************************************************************************)

\* the lines the device reports while the dashboard starts
StartInputs == {"sensors: fatal error", "hello", Fam(1)}

\* a document that json.load cannot parse (a write that failed after the
\* file was truncated left it behind)
CorruptFile == [state |-> "corrupt", errors |-> <<>>, last_boot_time |-> None]

\* main 5325-5343: the reader thread was started and has connected during
\* the sleep of 5335; load_error_log has not been called yet
InitStart ==
    /\ status = ConnectedStatus
    /\ error_file \in {NoFile, CorruptFile, FileAfter(2), FileAfter(ErrorCap + 1)}
    /\ serial_conn = [bound |-> TRUE, port |-> "A", open |-> TRUE, gen |-> 1]
    /\ current_port = "A"
    /\ serial_thread = 1
    /\ port_lock = 0
    /\ readers = <<>>
    /\ handlers = <<>>
    /\ main_pc = "load_error_log"
    /\ nfed = 0
    /\ last = [op |-> "init", arg |-> None, exc |-> None, st |-> ConnectedStatus,
               file |-> error_file]
    /\ monitor = NoMonitor
    /\ connection_state = NoConnection
    /\ error_data = None
    /\ current_scanning_bus = None
    /\ wake_timers = <<>>

\* load_error_log 3554-3557, 3563-3565: no document: return; the document
\* is read and parsed into error_data; json.load raises and the handler
\* empties the log
MainLoadRead ==
    /\ main_pc = "load_error_log"
    /\ CASE error_file.state = "absent" ->
               /\ main_pc' = "serving"
               /\ UNCHANGED <<status, error_data>>
         [] error_file.state = "corrupt" ->
               /\ main_pc' = "serving"
               /\ status' = [status EXCEPT !.error_log = <<>>]
               /\ UNCHANGED error_data
         [] error_file.state = "ok" ->
               /\ main_pc' = "load_assign"
               /\ error_data' = error_file
               /\ UNCHANGED status
    /\ last' = Op("load_read", None, IF error_file.state = "corrupt" THEN "Exception" ELSE None)
    /\ UNCHANGED <<error_file, serial_conn, current_port, serial_thread, port_lock,
                   readers, handlers, nfed>>
    /\ UNCHANGED <<monitor, connection_state, current_scanning_bus, wake_timers>>

\* load_error_log 3558-3559
MainLoadAssign ==
    /\ main_pc = "load_assign"
    /\ status' = [status EXCEPT !.error_log = error_data.errors,
                                !.last_boot_time = error_data.last_boot_time]
    /\ main_pc' = "load_trim"
    /\ error_data' = None
    /\ last' = Op("load_assign", None, None)
    /\ UNCHANGED <<error_file, serial_conn, current_port, serial_thread, port_lock,
                   readers, handlers, nfed>>
    /\ UNCHANGED <<monitor, connection_state, current_scanning_bus, wake_timers>>

\* load_error_log 3561-3562, and the return
MainLoadTrim ==
    /\ main_pc = "load_trim"
    /\ status' = [status EXCEPT !.error_log = LastN(@, ErrorCap)]
    /\ main_pc' = "serving"
    /\ last' = Op("load", None, None)
    /\ UNCHANGED <<error_file, serial_conn, current_port, serial_thread, port_lock,
                   readers, handlers, nfed>>
    /\ UNCHANGED <<monitor, connection_state, error_data, current_scanning_bus, wake_timers>>

NextStart ==
    \/ MainLoadRead
    \/ MainLoadAssign
    \/ MainLoadTrim
    \/ FeedLine(StartInputs)

SpecStart == InitStart /\ [][NextStart]_vars

\* main takes a step of load_error_log
LoadStep == main_pc' # main_pc

\* every record of the log before the step is in the log after it
KeepsRecords ==
    \A i \in 1..Len(status.error_log) :
        \E j \in 1..Len(status'.error_log) : status'.error_log[j] = status.error_log[i]

\* the records the log holds while load_error_log has not assigned it were
\* all appended by the reader since the process started (the module creates
\* the log empty, 126)
BeforeAssign == main_pc \in {"load_error_log", "load_assign"}

\* C33 as stated: no error recorded by the ingestion loop is lost to the
\* startup load of the persisted log: under every interleaving of main and
\* the reader, no step of load_error_log removes from the error log a record
\* that was appended since the process started.
C33_LoadKeepsRecorded == [][(LoadStep /\ BeforeAssign) => KeepsRecords]_vars

\* What holds: a record the reader appends after load_error_log has returned
\* is in the log, and the load itself, run with no line before it, yields
\* the newest records of the document.
C33_LoadAloneYieldsDocument ==
    (main_pc = "serving" /\ nfed = 0 /\ error_file.state = "ok") =>
        status.error_log = LastN(error_file.errors, ErrorCap)

\* a record was appended and saved between the read of the document and the
\* assignment, and the assignment has replaced the log
C33_RecordLost ==
    /\ main_pc = "serving"
    /\ \E i \in 1..Len(error_file.errors) :
          /\ error_file.errors[i].message = "sensors: fatal error"
          /\ \A j \in 1..Len(status.error_log) :
                status.error_log[j].message # "sensors: fatal error"

(***************************************************************************)
(* The wake-word flag and its reset_wake threads (544-553): SpecWake       *)
(***************************************************************************)

\* the lines the device reports
WakeInputs == {"Wake word detected", "sensors: wake detected", "hello"}

InitWake ==
    /\ status = ConnectedStatus
    /\ error_file = NoFile
    /\ serial_conn = [bound |-> TRUE, port |-> "A", open |-> TRUE, gen |-> 1]
    /\ current_port = "A"
    /\ serial_thread = 1
    /\ port_lock = 0
    /\ readers = <<>>
    /\ handlers = <<>>
    /\ main_pc = "serving"
    /\ nfed = 0
    /\ last = [op |-> "init", arg |-> None, exc |-> None, st |-> ConnectedStatus,
               file |-> NoFile]
    /\ monitor = NoMonitor
    /\ connection_state = NoConnection
    /\ error_data = None
    /\ current_scanning_bus = None
    /\ wake_timers = <<>>

TimerAt(t, pc) == t \in DOMAIN wake_timers /\ wake_timers[t].pc = pc

\* 551: reset_wake evaluates `time.sleep`.  time is a local name of
\* parse_log_line (569), so reset_wake reads the cell of the call that
\* started it: the cell is unbound and the thread ends with NameError,
\* unless that call has reached `import time` at 569 by then (bound)
WakeRun(t, bound) ==
    /\ TimerAt(t, "start")
    /\ bound => wake_timers[t].cell = "racing"
    /\ wake_timers' = [wake_timers EXCEPT ![t].pc = IF bound THEN "sleep" ELSE "dead"]
    /\ last' = Op("reset_wake", t, IF bound THEN None ELSE "NameError")
    /\ UNCHANGED <<status, error_file, serial_conn, current_port, serial_thread, port_lock,
                   readers, handlers, main_pc, nfed>>
    /\ UNCHANGED <<monitor, connection_state, error_data, current_scanning_bus>>

\* 551-552: time.sleep(2) has returned; status['wake_word'] = False
WakeReset(t) ==
    /\ TimerAt(t, "sleep")
    /\ wake_timers[t].left = 0
    /\ status' = [status EXCEPT !.wake_word = FALSE]
    /\ wake_timers' = [wake_timers EXCEPT ![t].pc = "done"]
    /\ last' = Op("wake_reset", t, None)
    /\ UNCHANGED <<error_file, serial_conn, current_port, serial_thread, port_lock,
                   readers, handlers, main_pc, nfed>>
    /\ UNCHANGED <<monitor, connection_state, error_data, current_scanning_bus>>

\* One second passes.  A thread that was started runs at once, and a sleep
\* that is over returns before more time passes.
WakeTick ==
    /\ \E t \in DOMAIN wake_timers : wake_timers[t].left > 0
    /\ \A t \in DOMAIN wake_timers :
          /\ wake_timers[t].pc # "start"
          /\ ~(wake_timers[t].pc = "sleep" /\ wake_timers[t].left = 0)
    /\ wake_timers' = [t \in DOMAIN wake_timers |->
                          [wake_timers[t] EXCEPT !.left = IF @ > 0 THEN @ - 1 ELSE 0]]
    /\ last' = Op("tick", None, None)
    /\ UNCHANGED <<status, error_file, serial_conn, current_port, serial_thread, port_lock,
                   readers, handlers, main_pc, nfed>>
    /\ UNCHANGED <<monitor, connection_state, error_data, current_scanning_bus>>

NextWake ==
    \/ FeedLine(WakeInputs)
    \/ \E t \in DOMAIN wake_timers : \E bound \in BOOLEAN : WakeRun(t, bound)
    \/ \E t \in DOMAIN wake_timers : WakeReset(t)
    \/ WakeTick

SpecWake == InitWake /\ [][NextWake]_vars

\* the delay of the most recent wake event has not passed
DelayRunning == wake_timers # <<>> /\ wake_timers[Len(wake_timers)].left > 0

\* the delay of the most recent wake event has passed and every reset_wake
\* thread has ended
DelayOver ==
    /\ wake_timers # <<>>
    /\ \A t \in DOMAIN wake_timers :
          wake_timers[t].left = 0 /\ wake_timers[t].pc \in {"dead", "done"}

\* C35 as stated: the wake-word flag stays set for the full reset delay
\* after the most recent wake event and is then cleared: while the delay of
\* the most recent event runs the flag is set, also when the timer of an
\* earlier event expires, and once the delay is over and the reset threads
\* have ended the flag is false.
C35_FlagFollowsLastEvent ==
    /\ DelayRunning => status.wake_word
    /\ DelayOver => ~status.wake_word

\* What holds: a wake event sets the flag and counts one event, and only a
\* reset_wake thread that got past `time.sleep` ever clears the flag.
C35_SetByEventClearedByThread ==
    /\ (last.op = "line" /\ In("wake", last.arg) /\ In("detected", last.arg)) =>
           /\ status.wake_word
           /\ status.stats.wake_events = last.st.stats.wake_events + 1
    /\ (wake_timers # <<>> /\ ~status.wake_word) =>
           \E t \in DOMAIN wake_timers : wake_timers[t].pc = "done"

\* the thread of the only wake event ended with NameError and the flag is
\* still set after the delay
C35_NeverCleared ==
    /\ Len(wake_timers) = 1
    /\ wake_timers[1].pc = "dead" /\ wake_timers[1].left = 0
    /\ status.wake_word

\* the timer of the first of two events has cleared the flag while the delay
\* of the second still runs
C35_ClearedEarly ==
    /\ Len(wake_timers) = 2
    /\ wake_timers[1].pc = "done"
    /\ wake_timers[2].left > 0
    /\ ~status.wake_word

(***************************************************************************)
(* The LED panel, the bus scans and the counters, line by line: SpecPanel  *)
(***************************************************************************)

\* the lines the device reports
PanelInputs ==
    { "LED[WIFI]: RGB(0,120,120)", "LED[WIFI]: OFF (R:0 G:0 B:0)", "LED[FOO]: RGB(1,2,3)",
      "LED[SPOTIFY]: RGB(5,0,0)", "LED[SPOTIFY]: RGB(0,0,0)",
      "Gemini tools: set_leds(SPOTIFY, on)", "Gemini tools: set_leds(SPOTIFY, off)",
      "gemini tools: set_leds on",
      "Scanning Audio Bus", "Scanning Sensor Bus (SDA=GPIO44, SCL=GPIO43)",
      "Found device at address 0x44", "Found device at address 0x29",
      "Found device at address 0x1A on Audio Bus",
      "=== End scan of Audio Bus ===", "=== End scan of Sensor Bus ===",
      "Total: 2 device(s) found on Sensor Bus",
      "sensors: fatal error", "Wi-Fi connected, IP:192.168.1.42", "Wi-Fi connected",
      "Gemini Live pathway failed: error", "Gemini error: timeout",
      "sensors: wake detected", "hello" }

NextPanel ==
    \/ FeedLine(PanelInputs)
    \/ \E t \in DOMAIN wake_timers : \E bound \in BOOLEAN : WakeRun(t, bound)
    \/ \E t \in DOMAIN wake_timers : WakeReset(t)
    \/ WakeTick

SpecPanel == InitWake /\ [][NextPanel]_vars

\* the state of the LED says ON exactly when one of its values is above 0
LedConsistent(l) == (l.state = "ON") <=> (l.r > 0 \/ l.g > 0 \/ l.b > 0)

\* the line last classified matched the LED rule and names no LED of the panel
NamesUnknownLed ==
    /\ last.op = "line"
    /\ Cap(last.arg).led.kind # "none"
    /\ Cap(last.arg).led.name \notin LedNames

\* C36 as stated: after any sequence of lines, for every LED in
\* status['leds'] the state is 'ON' exactly when at least one of its r, g,
\* b values is greater than 0, the set of LED names never changes, and a
\* line naming an unknown LED changes nothing.
C36_LedStateInvariant ==
    /\ \A n \in DOMAIN status.leds : LedConsistent(status.leds[n])
    /\ DOMAIN status.leds = LedNames
    /\ NamesUnknownLed => status.leds = last.st.leds

\* What holds: the LED rule (982-1011) leaves the LED it names consistent,
\* the set of names never changes, and a line naming an unknown LED changes
\* no LED and nothing else but the buffer of lines.
C36_LedRuleConsistent ==
    /\ (last.op = "line" /\ Cap(last.arg).led.kind # "none"
          /\ Cap(last.arg).led.name \in LedNames
          /\ ~In("gemini", last.arg)) =>
           LedConsistent(status.leds[Cap(last.arg).led.name])
    /\ DOMAIN status.leds = LedNames
    /\ NamesUnknownLed => status = [last.st EXCEPT !.logs = status.logs]

\* the SPOTIFY LED says ON with all three values 0
C36_OnWithoutColour ==
    /\ status.leds.SPOTIFY.state = "ON"
    /\ status.leds.SPOTIFY.r = 0 /\ status.leds.SPOTIFY.g = 0 /\ status.leds.SPOTIFY.b = 0

\* the SPOTIFY LED says OFF with a value above 0
C36_OffWithColour ==
    /\ status.leds.SPOTIFY.state = "OFF"
    /\ status.leds.SPOTIFY.r > 0

\* q is sorted and holds no value twice
StrictlySorted(q) == \A i \in 1..(Len(q) - 1) : q[i] < q[i + 1]

Buses == {"sensor_bus", "audio_bus"}

OtherBus(b) == IF b = "sensor_bus" THEN "audio_bus" ELSE "sensor_bus"

\* the line last classified reports a device and names no bus
FoundWithoutBus ==
    /\ last.op = "line"
    /\ last.exc = None
    /\ In("device at address", last.arg)
    /\ Cap(last.arg).addr # -1
    /\ ~In("audio bus", last.arg) /\ ~In("sensor bus", last.arg)

\* the device of the line last classified is in the list of bus b, and the
\* list of the other bus is as it was
AttributedTo(b) ==
    /\ \E i \in 1..Len(status.i2c_scan[b].devices) :
          status.i2c_scan[b].devices[i] = Cap(last.arg).addr
    /\ status.i2c_scan[OtherBus(b)].devices = last.st.i2c_scan[OtherBus(b)].devices

\* the line last classified starts a scan of bus b
ScanStarted(b) ==
    /\ last.op = "line"
    /\ In("scanning", last.arg)
    /\ IF b = "sensor_bus" THEN In("sensor bus", last.arg)
       ELSE In("audio bus", last.arg) /\ ~In("sensor bus", last.arg)

\* each list is sorted and free of duplicates, and is empty after the line
\* that starts a scan of its bus
ListsInOrder ==
    \A b \in Buses :
        /\ StrictlySorted(status.i2c_scan[b].devices)
        /\ ScanStarted(b) => status.i2c_scan[b].devices = <<>>

\* C37 as stated: a "found device at address" line that names no bus is
\* attributed to the bus whose scan started most recently and has not ended
\* (current_scanning_bus), also when the other bus is still marked
\* 'Scanning'; each bus's device list stays sorted and free of duplicates,
\* and is emptied when a new scan of that bus starts.
C37_AttributedToCurrentScan ==
    /\ (FoundWithoutBus /\ current_scanning_bus # None) => AttributedTo(current_scanning_bus)
    /\ ListsInOrder

\* What holds: the lists are in order, and the device goes to the audio bus
\* whenever that bus is marked 'Scanning', to the sensor bus when only that
\* one is, and to current_scanning_bus (the sensor bus when it is None)
\* when neither is.
C37_ScanningAudioBusFirst ==
    /\ FoundWithoutBus =>
          AttributedTo(IF last.st.i2c_scan.audio_bus.status = "Scanning" THEN "audio_bus"
                       ELSE IF last.st.i2c_scan.sensor_bus.status = "Scanning" THEN "sensor_bus"
                       ELSE IF current_scanning_bus # None THEN current_scanning_bus
                       ELSE "sensor_bus")
    /\ ListsInOrder

\* a device reported during the scan of the sensor bus is in the list of the
\* audio bus, whose scan had started before and was not ended
C37_WrongBus ==
    /\ FoundWithoutBus
    /\ current_scanning_bus = "sensor_bus"
    /\ last.st.i2c_scan.sensor_bus.status = "Scanning"
    /\ status.i2c_scan.sensor_bus.devices = <<>>
    /\ status.i2c_scan.audio_bus.devices = <<Cap(last.arg).addr>>

\* the counters of status['stats']
Counters == {"errors", "wifi_connects", "gemini_errors", "wake_events"}

\* by how much the line last classified changed counter k
Counted(k) == status.stats[k] - last.st.stats[k]

\* C38 as stated: each classified line changes any one counter
\* (stats.errors, stats.wifi_connects, stats.gemini_errors,
\* stats.wake_events) by at most 1: no single line is counted twice in the
\* same statistic, whichever combination of rules it matches.
C38_CountedAtMostOnce ==
    last.op = "line" => \A k \in Counters : Counted(k) \in {0, 1}

\* What holds: no line lowers a counter, a line is counted at most twice
\* in a statistic, and at most once as a wake event.
C38_CountedAtMostTwice ==
    last.op = "line" =>
        /\ \A k \in Counters : Counted(k) \in {0, 1, 2}
        /\ Counted("wake_events") \in {0, 1}

\* one line was counted twice as an error, one twice as a Wi-Fi connect, one
\* twice as a Gemini error
C38_ErrorTwice == last.op = "line" /\ Counted("errors") = 2

C38_ConnectTwice == last.op = "line" /\ Counted("wifi_connects") = 2

C38_GeminiErrorTwice == last.op = "line" /\ Counted("gemini_errors") = 2

====
